---- MODULE Spec2Model ----
(***************************************************************************)
(* Wick strategy builder: the graph editor's connection rules, the graph   *)
(* compiler generateStrategyCode (frontend/src/utils/codeGenerator.ts) and *)
(* the bar-by-bar behaviour of the WickStrategy class it emits.            *)
(*                                                                         *)
(* The emitted Python text is modelled by its syntax tree: every composite *)
(* condition the generator emits is wrapped in parentheses, so the tree is *)
(* the parse of the text.  Prices are integers; a value the Python code    *)
(* computes with a "/ 100" is kept multiplied by 100.                      *)
(***************************************************************************)
EXTENDS Integers, Sequences, FiniteSets, TLC

VARIABLES
    nodes,                \* store.nodes: the graph's nodes, in order
    edges,                \* store.edges: the graph's edges, in order
    mode,                 \* which part of the program this behaviour exercises
    strategyCode,         \* the generated strategy the engine was handed
    generatedCode,        \* StrategyBuilder's generatedCode, the code Run Backtest posts
    appStrategyCode,      \* App's strategyCode, passed to the backtest and live tabs
    hist,                 \* the bars the strategy has seen, newest last
    position,             \* self.position.size as next() reads it
    entry_price,          \* self.entry_price
    trailing_stop_price,  \* self.trailing_stop_price, times 100
    crashed,              \* the run was aborted by an exception
    entry_close,          \* the close of the bar on which the Buy rule opened the
                          \* position now held (0: none); not a field of the program
    last                  \* what the last call of next() did; not a field of the program

vars == <<nodes, edges, mode, strategyCode, generatedCode, appStrategyCode, hist,
          position, entry_price, trailing_stop_price, crashed, entry_close, last>>

----------------------------------------------------------------------------
(* Bounds of the model *)

MaxBars == 4
MaxOffset == 2
MaxLookback == 2
MaxEdges == 3
MaxShares == 2
MaxPrice == 3
MaxExits == 2

(* An attribute of the strategy object that init() never assigned. *)
Unset == 0 - 1

----------------------------------------------------------------------------
(* Graph data *)

NoConfig == [orderType |-> "", amount |-> 0, type |-> "", value |-> 0,
             period |-> 0, kPeriod |-> 0, multiplier |-> 0,
             fast |-> 0, slow |-> 0, signal |-> 0, std |-> 0, dPeriod |-> 0]

MkNode(id, type, label) ==
    [id |-> id, type |-> type, label |-> label, comparison |-> "",
     compareValue |-> 0, barOffset |-> 0, lookback |-> 0, config |-> NoConfig]

MkEdge(source, target, targetHandle) ==
    [source |-> source, target |-> target, targetHandle |-> targetHandle]

(* nodeMap.get(id): new Map(nodes.map(n => [n.id, n])) keeps the last node of an id *)
HasNode(ns, id) == \E i \in 1..Len(ns) : ns[i].id = id

NodeOf(ns, id) ==
    LET i == CHOOSE j \in 1..Len(ns) :
                 /\ ns[j].id = id
                 /\ \A k \in (j + 1)..Len(ns) : ns[k].id # id
    IN ns[i]

(* graph.get(id) || []: the sources of the edges into id that are not on the
   compare-input handle, in edge order *)
RECURSIVE ParentsFrom(_, _, _)
ParentsFrom(es, i, id) ==
    IF i > Len(es) THEN <<>>
    ELSE (IF es[i].target = id /\ es[i].targetHandle # "compare-input"
          THEN <<es[i].source>> ELSE <<>>) \o ParentsFrom(es, i + 1, id)

Parents(es, id) == ParentsFrom(es, 1, id)

(* a variant that never finds a compare-input edge *)
HasCompareInputNever(es, id) == FALSE

(* compareInputs.get(id): Map.set overwrites, so the last compare-input edge wins *)
HasCompareInput(es, id) ==
    \E i \in 1..Len(es) : es[i].target = id /\ es[i].targetHandle = "compare-input"

CompareSource(es, id) ==
    LET i == CHOOSE j \in 1..Len(es) :
                 /\ es[j].target = id /\ es[j].targetHandle = "compare-input"
                 /\ \A k \in (j + 1)..Len(es) :
                        ~(es[k].target = id /\ es[k].targetHandle = "compare-input")
    IN es[i].source

----------------------------------------------------------------------------
(* Value resolver: generateExpression *)

(* An expression of the emitted text: a literal, or `self.<name>[-idx]`; byI marks
   an index that wrapWithLookback rewrote to `[-i-idx]`.  A series name is a pair:
   <<"Close", 0>> is self.data.Close, <<"rsi", 14>> is self.rsi_14. *)
Lit(v) == [k |-> "lit", v |-> v, name |-> <<"", 0>>, idx |-> 0, byI |-> FALSE]
Ser(name, idx) == [k |-> "ser", v |-> 0, name |-> name, idx |-> idx, byI |-> FALSE]

(* `[-${offset + 1}]` for a positive offset, '[-1]' otherwise *)
OffsetIdx(offset) == IF offset > 0 THEN offset + 1 ELSE 1

(* priceType.charAt(0).toUpperCase() + priceType.slice(1) of the lower-cased label *)
PriceSeries(label) ==
    CASE label \in {"Open", "open"} -> "Open"
      [] label \in {"High", "high"} -> "High"
      [] label \in {"Low", "low"} -> "Low"
      [] label \in {"Close", "close"} -> "Close"
      [] label \in {"Volume", "volume"} -> "Volume"
      [] OTHER -> label

(* a variant with the period 14 as the default of every indicator *)
DefaultPeriodFourteen(name) == 14

(* config.period || 14 resp. config.period || 20 in generateExpression *)
DefaultPeriod(name) == IF name \in {"SMA", "EMA"} THEN 20 ELSE 14

(* label.split(' ')[0] *)
IndicatorName(label) ==
    CASE label = "Bollinger Bands" -> "Bollinger"
      [] label = "RSI 14" -> "RSI"
      [] label = "EMA 12" -> "EMA"
      [] OTHER -> label

(* the attribute an Indicator node's expression reads: <<attribute, parameter>> *)
IndicatorSeries(node) ==
    LET c == node.config
        name == IndicatorName(node.label)
        p == IF c.period # 0 THEN c.period ELSE DefaultPeriod(name)
    IN CASE name = "RSI" -> <<"rsi", p>>
         [] name = "SMA" -> <<"sma", p>>
         [] name = "EMA" -> <<"ema", p>>
         [] name = "MACD" -> <<"macd", 0>>
         [] name = "Bollinger" -> <<"bb_upper", 0>>
         [] name = "ATR" -> <<"atr", p>>
         [] name = "Stochastic" -> <<"stoch_k", IF c.kPeriod # 0 THEN c.kPeriod ELSE 14>>
         [] name = "ADX" -> <<"adx", p>>
         [] OTHER -> <<"", 0>>

(* generateExpression(nodeId, barOffset); given = FALSE is a call without barOffset *)
generateExpression(ns, nodeId, given, barOffset) ==
    IF ~HasNode(ns, nodeId) THEN Lit(0)
    ELSE LET node == NodeOf(ns, nodeId)
             offset == IF given THEN barOffset ELSE node.barOffset
             idx == OffsetIdx(offset)
         IN CASE node.type = "price" -> Ser(<<PriceSeries(node.label), 0>>, idx)
              [] node.type = "indicator" ->
                    IF IndicatorSeries(node)[1] = "" THEN Lit(0)
                    ELSE Ser(IndicatorSeries(node), idx)
              [] node.type = "value" -> Lit(node.compareValue)
              [] OTHER -> Lit(0)

----------------------------------------------------------------------------
(* Condition compiler: the conditions of the emitted text *)

TrueCond == [k |-> "True", op |-> "", l |-> Lit(0), r |-> Lit(0), args |-> <<>>, n |-> 0]
Cmp(l, op, r) == [k |-> "cmp", op |-> op, l |-> l, r |-> r, args |-> <<>>, n |-> 0]
(* `(a and b)`, `(a or b)` *)
Join(op, args) == [k |-> op, op |-> "", l |-> Lit(0), r |-> Lit(0), args |-> args, n |-> 0]
(* `(not a)` *)
Not(a) == [k |-> "not", op |-> "", l |-> Lit(0), r |-> Lit(0), args |-> <<a>>, n |-> 0]
(* `any(a for i in range(n))` *)
AnyInRange(a, n) == [k |-> "any", op |-> "", l |-> Lit(0), r |-> Lit(0), args |-> <<a>>, n |-> n]

(* a variant that samples the compare source of the previous bar at the
   current bar *)
generateCrossoverConditionUnaligned(ns, nodeId, compareSourceId, crossType) ==
    LET currExpr == generateExpression(ns, nodeId, TRUE, 0)
        prevExpr == generateExpression(ns, nodeId, TRUE, 1)
        currCompare == generateExpression(ns, compareSourceId, TRUE, 0)
    IN IF crossType = "above"
       THEN Join("and", <<Cmp(prevExpr, "<=", currCompare), Cmp(currExpr, ">", currCompare)>>)
       ELSE Join("and", <<Cmp(prevExpr, ">=", currCompare), Cmp(currExpr, "<", currCompare)>>)

generateCrossoverCondition(ns, nodeId, compareSourceId, crossType) ==
    LET currExpr == generateExpression(ns, nodeId, TRUE, 0)
        prevExpr == generateExpression(ns, nodeId, TRUE, 1)
        currCompare == generateExpression(ns, compareSourceId, TRUE, 0)
        prevCompare == generateExpression(ns, compareSourceId, TRUE, 1)
    IN IF crossType = "above"
       THEN Join("and", <<Cmp(prevExpr, "<=", prevCompare), Cmp(currExpr, ">", currCompare)>>)
       ELSE Join("and", <<Cmp(prevExpr, ">=", prevCompare), Cmp(currExpr, "<", currCompare)>>)

generateCrossoverValueCondition(ns, nodeId, compareValue, crossType) ==
    LET currExpr == generateExpression(ns, nodeId, TRUE, 0)
        prevExpr == generateExpression(ns, nodeId, TRUE, 1)
    IN IF crossType = "above"
       THEN Join("and", <<Cmp(prevExpr, "<=", Lit(compareValue)),
                          Cmp(currExpr, ">", Lit(compareValue))>>)
       ELSE Join("and", <<Cmp(prevExpr, ">=", Lit(compareValue)),
                          Cmp(currExpr, "<", Lit(compareValue))>>)

(* condition.replace(/\[-1\]/g, '[-i-1]').replace(/\[-2\]/g, '[-i-2]') on one
   expression: only the indices written [-1] and [-2] are rewritten *)
ReplaceIndex(e) ==
    IF e.k = "ser" /\ e.idx \in {1, 2} THEN [e EXCEPT !.byI = TRUE] ELSE e

RECURSIVE ReplaceIndices(_)
ReplaceIndices(c) ==
    IF c.k = "cmp" THEN [c EXCEPT !.l = ReplaceIndex(c.l), !.r = ReplaceIndex(c.r)]
    ELSE [c EXCEPT !.args = [j \in 1..Len(c.args) |-> ReplaceIndices(c.args[j])]]

wrapWithLookback(condition, lookback) ==
    IF lookback <= 0 THEN condition ELSE AnyInRange(ReplaceIndices(condition), lookback)

(* the condition of a Price/Indicator node before the lookback is applied *)
BaseCondition(ns, es, nodeId) ==
    LET node == NodeOf(ns, nodeId)
        comparison == IF node.comparison # "" THEN node.comparison ELSE ">"
        compareValue == node.compareValue
        expression == generateExpression(ns, nodeId, FALSE, 0)
    IN IF comparison = "crosses_above"
       THEN IF HasCompareInput(es, nodeId)
            THEN generateCrossoverCondition(ns, nodeId, CompareSource(es, nodeId), "above")
            ELSE generateCrossoverValueCondition(ns, nodeId, compareValue, "above")
       ELSE IF comparison = "crosses_below"
       THEN IF HasCompareInput(es, nodeId)
            THEN generateCrossoverCondition(ns, nodeId, CompareSource(es, nodeId), "below")
            ELSE generateCrossoverValueCondition(ns, nodeId, compareValue, "below")
       ELSE IF HasCompareInput(es, nodeId)
            THEN Cmp(expression, comparison,
                     generateExpression(ns, CompareSource(es, nodeId), FALSE, 0))
            ELSE Cmp(expression, comparison, Lit(compareValue))

(* a variant that joins the inputs of every gate with `and` *)
LogicOperatorAnd(label) == "and"

(* the operator a Logic node that is not a NOT joins its inputs with *)
LogicOperator(label) == IF label = "AND" THEN "and" ELSE "or"

(* a variant in which the inputs of a gate share one set: an input compiled
   earlier is already in it *)
VisitedShared(seen, parents, j) == seen \cup { parents[k] : k \in 1..(j - 1) }

(* new Set(visited): the copy handed down to the j-th input of a gate *)
VisitedCopy(seen, parents, j) == seen

RECURSIVE generateNodeCondition(_, _, _, _)
generateNodeCondition(ns, es, nodeId, visited) ==
    IF nodeId \in visited THEN TrueCond
    ELSE IF ~HasNode(ns, nodeId) THEN TrueCond
    ELSE
      LET node == NodeOf(ns, nodeId)
          seen == visited \cup {nodeId}
          parents == Parents(es, nodeId)
      IN CASE node.type \in {"indicator", "price"} ->
                 IF node.lookback > 0
                 THEN wrapWithLookback(BaseCondition(ns, es, nodeId), node.lookback)
                 ELSE BaseCondition(ns, es, nodeId)
           [] node.type = "logic" ->
                 IF node.label = "NOT"
                 THEN IF Len(parents) = 0 THEN TrueCond
                      ELSE Not(generateNodeCondition(ns, es, parents[1],
                                                     VisitedCopy(seen, parents, 1)))
                 ELSE IF Len(parents) = 0 THEN TrueCond
                      ELSE Join(LogicOperator(node.label),
                                [j \in 1..Len(parents) |->
                                    generateNodeCondition(ns, es, parents[j],
                                                          VisitedCopy(seen, parents, j))])
           [] OTHER -> TrueCond

(* the depth beyond which nested calls are no longer followed *)
MaxDepth == 8

(* a variant without the test for a node already on the path *)
RECURSIVE RecursionDepthUnguarded(_, _, _, _, _)
RecursionDepthUnguarded(ns, es, nodeId, visited, depth) ==
    IF depth >= MaxDepth THEN depth
    ELSE IF ~HasNode(ns, nodeId) THEN depth
    ELSE
      LET node == NodeOf(ns, nodeId)
          parents == Parents(es, nodeId)
          below == { RecursionDepthUnguarded(ns, es, parents[j], {}, depth + 1) :
                        j \in IF node.label = "NOT" THEN {1} ELSE 1..Len(parents) }
      IN IF node.type = "logic" /\ Len(parents) > 0
         THEN CHOOSE d \in below : \A e \in below : e <= d
         ELSE depth

(* the nesting of the calls of generateNodeCondition: depth is that of the call
   for nodeId, the result that of the deepest call below it *)
RECURSIVE RecursionDepth(_, _, _, _, _)
RecursionDepth(ns, es, nodeId, visited, depth) ==
    IF depth >= MaxDepth THEN depth
    ELSE IF nodeId \in visited THEN depth
    ELSE IF ~HasNode(ns, nodeId) THEN depth
    ELSE
      LET node == NodeOf(ns, nodeId)
          seen == visited \cup {nodeId}
          parents == Parents(es, nodeId)
          below == { RecursionDepth(ns, es, parents[j], VisitedCopy(seen, parents, j),
                                    depth + 1) :
                        j \in IF node.label = "NOT" THEN {1} ELSE 1..Len(parents) }
      IN IF node.type = "logic" /\ Len(parents) > 0
         THEN CHOOSE d \in below : \A e \in below : e <= d
         ELSE depth

----------------------------------------------------------------------------
(* Python's evaluation of an emitted condition on the bars seen so far: h is the
   history, newest bar last, so that x[-1] is the last bar's value of x. *)

IndexOf(e, i) == e.idx + (IF e.byI THEN i ELSE 0)

EvalExpr(e, h, i) ==
    IF e.k = "lit" THEN e.v ELSE h[Len(h) - IndexOf(e, i) + 1][e.name]

Compare(a, op, b) ==
    CASE op = ">" -> a > b
      [] op = "<" -> a < b
      [] op = "==" -> a = b
      [] op = ">=" -> a >= b
      [] op = "<=" -> a <= b

RECURSIVE EvalCond(_, _, _)
EvalCond(c, h, i) ==
    CASE c.k = "True" -> TRUE
      [] c.k = "cmp" -> Compare(EvalExpr(c.l, h, i), c.op, EvalExpr(c.r, h, i))
      [] c.k = "and" -> \A j \in 1..Len(c.args) : EvalCond(c.args[j], h, i)
      [] c.k = "or" -> \E j \in 1..Len(c.args) : EvalCond(c.args[j], h, i)
      [] c.k = "not" -> ~EvalCond(c.args[1], h, i)
      [] c.k = "any" -> \E j \in 0..(c.n - 1) : EvalCond(c.args[1], h, j)

(* the number of bars a condition reads back: evaluating it on a shorter history
   raises IndexError *)
RECURSIVE BarsNeeded(_, _)
BarsNeeded(c, i) ==
    LET Max(a, b) == IF a >= b THEN a ELSE b
        ofExpr(e) == IF e.k = "lit" THEN 0 ELSE IndexOf(e, i)
        RECURSIVE ofArgs(_)
        ofArgs(j) == IF j > Len(c.args) THEN 0
                     ELSE Max(BarsNeeded(c.args[j], i), ofArgs(j + 1))
    IN CASE c.k = "cmp" -> Max(ofExpr(c.l), ofExpr(c.r))
         [] c.k = "any" -> IF c.n <= 0 THEN 0 ELSE BarsNeeded(c.args[1], c.n - 1)
         [] OTHER -> ofArgs(1)

----------------------------------------------------------------------------
(* Action resolver and exit rules: the parts of the emitted WickStrategy class *)

(* String(n.data.label).toLowerCase().includes('buy') / includes('sell') *)
IsBuyLabel(label) == label \in {"Buy", "buy", "BUY"}
IsSellLabel(label) == label \in {"Sell", "sell", "SELL"}

NodesOfType(ns, type) == SelectSeq(ns, LAMBDA n : n.type = type)

(* a variant that compiles the first Flow parent only *)
ActionConditionFirstParent(ns, es, node) ==
    LET parents == Parents(es, node.id)
    IN IF Len(parents) = 0 THEN TrueCond
       ELSE generateNodeCondition(ns, es, parents[1], {})

(* the implicit AND over the Flow parents of an Action node *)
ActionCondition(ns, es, node) ==
    LET parents == Parents(es, node.id)
        conditions == [j \in 1..Len(parents) |->
                          generateNodeCondition(ns, es, parents[j], {})]
    IN IF Len(parents) = 0 THEN TrueCond
       ELSE IF Len(conditions) > 1 THEN Join("and", conditions) ELSE conditions[1]

OrderType(node) == IF node.config.orderType # "" THEN node.config.orderType ELSE "all"
Amount(node) == IF node.config.amount # 0 THEN node.config.amount ELSE 100000

(* sizeLogic: the statement placed under the rule's position test *)
generateBuyLogic(ns, es, node) ==
    [node |-> node.id,
     condition |-> ActionCondition(ns, es, node),
     sizeLogic |-> CASE OrderType(node) = "all" -> [call |-> "buy", amount |-> 0]
                     [] OrderType(node) = "cash" -> [call |-> "buy_cash", amount |-> Amount(node)]
                     [] OrderType(node) = "shares" -> [call |-> "buy_shares", amount |-> Amount(node)]
                     [] OrderType(node) = "percent" -> [call |-> "buy_percent", amount |-> Amount(node)]
                     [] OTHER -> [call |-> "", amount |-> 0]]

generateSellLogic(ns, es, node) ==
    [node |-> node.id,
     condition |-> ActionCondition(ns, es, node),
     sizeLogic |-> CASE OrderType(node) = "all" -> [call |-> "close", amount |-> 0]
                     [] OrderType(node) = "shares" -> [call |-> "sell_shares", amount |-> Amount(node)]
                     [] OrderType(node) = "percent" -> [call |-> "sell_percent", amount |-> Amount(node)]
                     [] OTHER -> [call |-> "close", amount |-> 0]]

ExitType(node) == IF node.config.type # "" THEN node.config.type ELSE "percent"
ExitValue(node) == IF node.config.value # 0 THEN node.config.value ELSE 2
ExitMultiplier(node) == IF node.config.multiplier # 0 THEN node.config.multiplier ELSE 2

(* the lines one exit node pushes on nextLines: one rule, or nothing *)
ExitLines(node) ==
    CASE node.label \in {"Stop Loss", "Take Profit"}
              /\ ExitType(node) \in {"percent", "fixed", "atr"} ->
            <<[node |-> node.id, rule |-> node.label, basis |-> ExitType(node),
               value |-> ExitValue(node)]>>
      [] node.label = "Trailing Stop" /\ ExitType(node) = "percent" ->
            <<[node |-> node.id, rule |-> node.label, basis |-> "percent",
               value |-> ExitValue(node)]>>
      [] node.label = "Trailing Stop" /\ ExitType(node) = "atr" ->
            <<[node |-> node.id, rule |-> node.label, basis |-> "atr",
               value |-> ExitMultiplier(node)]>>
      [] OTHER -> <<>>

RECURSIVE ExitNextLines(_, _)
ExitNextLines(exitNodes, j) ==
    IF j > Len(exitNodes) THEN <<>>
    ELSE ExitLines(exitNodes[j]) \o ExitNextLines(exitNodes, j + 1)

(* atrPeriod: the period of the last exit node of ATR basis (0: no exit_atr) *)
RECURSIVE ExitAtrPeriod(_, _, _)
ExitAtrPeriod(exitNodes, j, period) ==
    IF j > Len(exitNodes) THEN period
    ELSE ExitAtrPeriod(exitNodes, j + 1,
             IF ExitType(exitNodes[j]) = "atr"
             THEN (IF exitNodes[j].config.period # 0 THEN exitNodes[j].config.period ELSE 14)
             ELSE period)

generateExitLogic(exitNodes) ==
    [initEntry |-> Len(exitNodes) > 0,
     initTrailing |-> \E j \in 1..Len(exitNodes) : exitNodes[j].label = "Trailing Stop",
     atrPeriod |-> ExitAtrPeriod(exitNodes, 1, 0),
     nextLines |-> ExitNextLines(exitNodes, 1)]

(* config.<key> || <default> *)
Or(value, default) == IF value # 0 THEN value ELSE default

(* the init line of one Indicator node: the (first) attribute it assigns, the
   talib function and its parameters; fn "" is the empty string of an unknown
   name *)
IndicatorInit(node) ==
    LET c == node.config
        name == IndicatorName(node.label)
    IN CASE name = "RSI" ->
               [attr |-> <<"rsi", Or(c.period, 14)>>, fn |-> "RSI", params |-> <<Or(c.period, 14)>>]
         [] name = "SMA" ->
               [attr |-> <<"sma", Or(c.period, 20)>>, fn |-> "SMA", params |-> <<Or(c.period, 20)>>]
         [] name = "EMA" ->
               [attr |-> <<"ema", Or(c.period, 20)>>, fn |-> "EMA", params |-> <<Or(c.period, 20)>>]
         [] name = "MACD" ->
               [attr |-> <<"macd", 0>>, fn |-> "MACD",
                params |-> <<Or(c.fast, 12), Or(c.slow, 26), Or(c.signal, 9)>>]
         [] name = "Bollinger" ->
               [attr |-> <<"bb_upper", 0>>, fn |-> "BBANDS",
                params |-> <<Or(c.period, 20), Or(c.std, 2), Or(c.std, 2)>>]
         [] name = "ATR" ->
               [attr |-> <<"atr", Or(c.period, 14)>>, fn |-> "ATR", params |-> <<Or(c.period, 14)>>]
         [] name = "Stochastic" ->
               [attr |-> <<"stoch_k", Or(c.kPeriod, 14)>>, fn |-> "STOCH",
                params |-> <<Or(c.kPeriod, 14), Or(c.dPeriod, 3), Or(c.dPeriod, 3)>>]
         [] name = "ADX" ->
               [attr |-> <<"adx", Or(c.period, 14)>>, fn |-> "ADX", params |-> <<Or(c.period, 14)>>]
         [] OTHER -> [attr |-> <<"", 0>>, fn |-> "", params |-> <<>>]

(* indicatorInits: one line per Indicator node, in node order, the empty ones
   filtered out *)
indicatorInits(ns) ==
    LET indicators == NodesOfType(ns, "indicator")
    IN SelectSeq([j \in 1..Len(indicators) |-> IndicatorInit(indicators[j])],
                 LAMBDA l : l.fn # "")

(* strategyCode: '', the empty string as a result without lines *)
NoCode ==
    [kind |-> "empty", inits |-> <<>>, exit |-> generateExitLogic(<<>>),
     buy |-> <<>>, sell |-> <<>>]

(* a variant without the test for Action nodes *)
generateStrategyCodeUnchecked(ns, es) ==
    LET actionNodes == NodesOfType(ns, "action")
        exitNodes == NodesOfType(ns, "exit")
        buyNodes == SelectSeq(actionNodes, LAMBDA n : IsBuyLabel(n.label))
        sellNodes == SelectSeq(actionNodes, LAMBDA n : IsSellLabel(n.label))
    IN IF Len(ns) = 0
       THEN [kind |-> "empty", inits |-> <<>>, exit |-> generateExitLogic(<<>>),
             buy |-> <<>>, sell |-> <<>>]
       ELSE [kind |-> "strategy",
             inits |-> indicatorInits(ns),
             exit |-> generateExitLogic(exitNodes),
             buy |-> [j \in 1..Len(buyNodes) |-> generateBuyLogic(ns, es, buyNodes[j])],
             sell |-> [j \in 1..Len(sellNodes) |-> generateSellLogic(ns, es, sellNodes[j])]]

(* generateStrategyCode: kind "empty" is the empty string, "noaction" the one-line
   comment, "strategy" the WickStrategy class *)
generateStrategyCode(ns, es) ==
    LET actionNodes == NodesOfType(ns, "action")
        exitNodes == NodesOfType(ns, "exit")
        buyNodes == SelectSeq(actionNodes, LAMBDA n : IsBuyLabel(n.label))
        sellNodes == SelectSeq(actionNodes, LAMBDA n : IsSellLabel(n.label))
        none == [kind |-> "empty", inits |-> <<>>, exit |-> generateExitLogic(<<>>),
                 buy |-> <<>>, sell |-> <<>>]
    IN IF Len(ns) = 0 THEN none
       ELSE IF Len(actionNodes) = 0 THEN [none EXCEPT !.kind = "noaction"]
       ELSE [kind |-> "strategy",
             inits |-> indicatorInits(ns),
             exit |-> generateExitLogic(exitNodes),
             buy |-> [j \in 1..Len(buyNodes) |-> generateBuyLogic(ns, es, buyNodes[j])],
             sell |-> [j \in 1..Len(sellNodes) |-> generateSellLogic(ns, es, sellNodes[j])]]

----------------------------------------------------------------------------
(* One call of the emitted next(): st carries self.entry_price and
   self.trailing_stop_price through the statements, with the orders placed and
   a record of what ran.  self.position is what it was when next() was called:
   backtesting.py fills an order when the following bar opens. *)

Close == <<"Close", 0>>
ExitAtr == <<"exit_atr", 0>>

Order(call, amount, by, node) == [call |-> call, amount |-> amount, by |-> by, node |-> node]

(* whether the rule's `if` holds, given the trailing level after its update *)
ExitSignals(b, entry, trail, close, atr) ==
    CASE b.rule = "Stop Loss" /\ b.basis = "percent" -> close * 100 <= entry * (100 - b.value)
      [] b.rule = "Stop Loss" /\ b.basis = "fixed" -> close <= entry - b.value
      [] b.rule = "Stop Loss" /\ b.basis = "atr" -> close <= entry - b.value * atr
      [] b.rule = "Take Profit" /\ b.basis = "percent" -> close * 100 >= entry * (100 + b.value)
      [] b.rule = "Take Profit" /\ b.basis = "fixed" -> close >= entry + b.value
      [] b.rule = "Take Profit" /\ b.basis = "atr" -> close >= entry + b.value * atr
      [] b.rule = "Trailing Stop" -> close * 100 <= trail

(* a variant that puts the stop above the close by the distance *)
NewStopAbove(b, close, atr) ==
    IF b.basis = "percent" THEN close * (100 + b.value)
    ELSE 100 * (close + b.value * atr)

(* new_stop, times 100 *)
NewStop(b, close, atr) ==
    IF b.basis = "percent" THEN close * (100 - b.value)
    ELSE 100 * (close - b.value * atr)

(* the trailing level assigned without the comparison *)
RatchetUnguarded(b, trail, close, atr) == NewStop(b, close, atr)

(* `if new_stop > self.trailing_stop_price: self.trailing_stop_price = new_stop` *)
Ratchet(b, trail, close, atr) ==
    IF NewStop(b, close, atr) > trail THEN NewStop(b, close, atr) ELSE trail

ExecExit(b, st, close, atr) ==
    LET trail1 == IF b.rule = "Trailing Stop" THEN Ratchet(b, st.trail, close, atr)
                  ELSE st.trail
        hit == ExitSignals(b, st.entry, trail1, close, atr)
        entry2 == IF hit THEN 0 ELSE st.entry
        trail2 == IF hit /\ b.rule = "Trailing Stop" THEN 0 ELSE trail1
    IN [st EXCEPT
          !.entry = entry2,
          !.trail = trail2,
          !.orders = IF hit THEN Append(@, Order("close", 0, "exit", b.node)) ELSE @,
          !.evald = Append(@, b.node),
          !.signalled = IF hit THEN Append(@, b.node) ELSE @,
          !.late = @ \/ (Len(st.signalled) > 0
                           /\ (hit \/ entry2 # st.entry \/ trail2 # st.trail))]

RECURSIVE ExecExits(_, _, _, _, _)
ExecExits(lines, j, st, close, atr) ==
    IF j > Len(lines) THEN st
    ELSE ExecExits(lines, j + 1, ExecExit(lines[j], st, close, atr), close, atr)

(* the exit rules without the `if self.position:` above them *)
ExitStepUnguarded(S, st, pos, h) ==
    IF Len(S.exit.nextLines) > 0
    THEN ExecExits(S.exit.nextLines, 1, st, h[Len(h)][Close],
                   IF S.exit.atrPeriod # 0 THEN h[Len(h)][ExitAtr] ELSE 0)
    ELSE st

(* `if self.position:` and the exit rules under it *)
ExitStep(S, st, pos, h) ==
    IF pos # 0 /\ Len(S.exit.nextLines) > 0
    THEN ExecExits(S.exit.nextLines, 1, st, h[Len(h)][Close],
                   IF S.exit.atrPeriod # 0 THEN h[Len(h)][ExitAtr] ELSE 0)
    ELSE st

(* the if/elif chain: the first rule whose condition holds (0: none) *)
FirstTrue(rules, h) ==
    IF \E j \in 1..Len(rules) : EvalCond(rules[j].condition, h, 0)
    THEN CHOOSE j \in 1..Len(rules) :
             /\ EvalCond(rules[j].condition, h, 0)
             /\ \A m \in 1..(j - 1) : ~EvalCond(rules[m].condition, h, 0)
    ELSE 0

(* the Buy rule without its `if not self.position:` *)
BuyStepUnguarded(S, st, pos, h) ==
    LET j == FirstTrue(S.buy, h)
    IN IF j # 0
       THEN [st EXCEPT
               !.orders = Append(@, Order(S.buy[j].sizeLogic.call,
                                          S.buy[j].sizeLogic.amount, "buy", S.buy[j].node)),
               !.entry = h[Len(h)][Close],
               !.bought = TRUE]
       ELSE st

(* `if <condition>: if not self.position: <sizeLogic>; self.entry_price = Close[-1]` *)
BuyStep(S, st, pos, h) ==
    LET j == FirstTrue(S.buy, h)
    IN IF j # 0 /\ pos = 0
       THEN [st EXCEPT
               !.orders = IF S.buy[j].sizeLogic.call # ""
                          THEN Append(@, Order(S.buy[j].sizeLogic.call,
                                               S.buy[j].sizeLogic.amount, "buy", S.buy[j].node))
                          ELSE @,
               !.entry = h[Len(h)][Close],
               !.bought = TRUE]
       ELSE st

(* `if <condition>: if self.position: <sizeLogic>; self.entry_price = 0` *)
SellStep(S, st, pos, h) ==
    LET j == FirstTrue(S.sell, h)
    IN IF j # 0 /\ pos # 0
       THEN [st EXCEPT
               !.orders = Append(@, Order(S.sell[j].sizeLogic.call,
                                          S.sell[j].sizeLogic.amount, "sell", S.sell[j].node)),
               !.entry = 0]
       ELSE st

StartOfNext(entry, trail) ==
    [entry |-> entry, trail |-> trail, orders |-> <<>>, evald |-> <<>>,
     signalled |-> <<>>, late |-> FALSE, bought |-> FALSE]

(* next(): exit logic, then buy logic, then sell logic *)
StrategyNext(S, entry, trail, pos, h) ==
    SellStep(S, BuyStep(S, ExitStep(S, StartOfNext(entry, trail), pos, h), pos, h), pos, h)

----------------------------------------------------------------------------
(* The engine's side of an order (backtesting.py): the size the call asks for and
   the position after the fills.  k is a size the engine works out from the
   account's equity, which the strategy does not hold. *)

(* the sizes an order may be filled with; none: the call raises *)
OrderSizes(o, pos, close, k) ==
    CASE o.call \in {"buy", "buy_percent"} -> {k}
      [] o.call = "buy_shares" -> IF o.amount > 0 THEN {o.amount} ELSE {}
      [] o.call = "buy_cash" ->
            IF o.amount <= close THEN {1}
            ELSE IF o.amount % close = 0 THEN {o.amount \div close} ELSE {}
      [] o.call = "sell_shares" ->
            IF o.amount < pos THEN (IF o.amount > 0 THEN {o.amount} ELSE {})
            ELSE (IF pos > 0 THEN {pos} ELSE {})
      [] o.call = "sell_percent" ->
            IF pos * o.amount <= 0 THEN {}
            ELSE IF pos * o.amount < 100 THEN {k}
            ELSE IF (pos * o.amount) % 100 = 0 THEN {(pos * o.amount) \div 100} ELSE {}
      [] OTHER -> {0}

Raises(orders, pos, close, k) ==
    \E j \in 1..Len(orders) : OrderSizes(orders[j], pos, close, k) = {}

RECURSIVE FillFrom(_, _, _, _, _, _)
(* the orders that are not closes, filled in the order they were placed *)
FillFrom(orders, j, now, pos, close, k) ==
    IF j > Len(orders) THEN now
    ELSE LET o == orders[j]
             size == CHOOSE x \in OrderSizes(o, pos, close, k) : TRUE
         IN FillFrom(orders, j + 1,
                     CASE o.call \in {"buy", "buy_percent", "buy_shares", "buy_cash"} -> now + size
                       [] o.call \in {"sell_shares", "sell_percent"} -> now - size
                       [] OTHER -> now,
                     pos, close, k)

(* a close order is queued ahead of the others *)
Fill(orders, pos, close, k) ==
    FillFrom(orders, 1,
             IF \E j \in 1..Len(orders) : orders[j].call = "close" THEN 0 ELSE pos,
             pos, close, k)

----------------------------------------------------------------------------
(* Running a compiled strategy bar by bar *)

NoCall == [pos0 |-> 0, close |-> 0, trail0 |-> 0, orders |-> <<>>, evald |-> <<>>,
           signalled |-> <<>>, late |-> FALSE, bought |-> FALSE, ran |-> FALSE]

(* init(): entry_price is assigned only when the graph has an exit node, and
   trailing_stop_price only when it has a Trailing Stop node *)
StrategyInit(S) ==
    /\ position = 0
    /\ entry_price = IF S.exit.initEntry THEN 0 ELSE Unset
    /\ trailing_stop_price = IF S.exit.initTrailing THEN 0 ELSE Unset
    /\ crashed = FALSE
    /\ entry_close = 0
    /\ last = NoCall

(* a bar: Close is a price, Open and Volume are what the action conditions read *)
RunBars ==
    { [s \in {Close, ExitAtr, <<"Open", 0>>, <<"Volume", 0>>} |->
          CASE s = Close -> c [] s = ExitAtr -> 1 [] s = <<"Open", 0>> -> o [] OTHER -> v] :
      c \in 1..MaxPrice, o \in {0, 1}, v \in {0, 1} }

(* The engine feeds one bar: it calls next() on it and fills the orders placed
   when the following bar opens.  A call in next() that raises (an order of a
   size the engine refuses) ends the run. *)
Bar(bar) ==
    /\ mode = "run"
    /\ strategyCode.kind = "strategy"
    /\ ~crashed
    /\ \E st \in {StrategyNext(strategyCode, entry_price, trailing_stop_price,
                                position, <<bar>>)} :
       \E sizes \in {{ k \in 1..MaxShares :
                          ~Raises(st.orders, position, bar[Close], k) }} :
          IF sizes = {}
          THEN /\ crashed' = TRUE
               /\ UNCHANGED <<position, entry_price, trailing_stop_price,
                              entry_close, last>>
          ELSE /\ position' \in { Fill(st.orders, position, bar[Close], k) : k \in sizes }
               /\ entry_price' = st.entry
               /\ trailing_stop_price' = st.trail
               /\ entry_close' = IF st.bought THEN bar[Close]
                                 ELSE IF position' = 0 THEN 0 ELSE entry_close
               /\ last' = [pos0 |-> position, close |-> bar[Close],
                           trail0 |-> trailing_stop_price,
                           orders |-> st.orders, evald |-> st.evald,
                           signalled |-> st.signalled, late |-> st.late,
                           bought |-> st.bought, ran |-> TRUE]
               /\ UNCHANGED crashed
    /\ UNCHANGED <<nodes, edges, mode, strategyCode, generatedCode, appStrategyCode, hist>>

(* The graphs run: a Buy on `Open > 0`, a Sell of one of the sizing modes on
   `Volume > 0`, and up to MaxExits exit nodes of different kinds. *)
ExitChoices ==
    { [label |-> "Stop Loss", type |-> "percent"], [label |-> "Stop Loss", type |-> "fixed"],
      [label |-> "Take Profit", type |-> "percent"], [label |-> "Take Profit", type |-> "atr"],
      [label |-> "Trailing Stop", type |-> "percent"], [label |-> "Trailing Stop", type |-> "atr"],
      [label |-> "Trailing Stop", type |-> "fixed"] }

ExitNode(j, c) ==
    [MkNode(<<"exit", j>>, "exit", c.label) EXCEPT
        !.config = [NoConfig EXCEPT !.type = c.type,
                                    !.value = IF c.type = "percent" THEN 50 ELSE 1,
                                    !.multiplier = 1]]

SellSizings ==
    { [orderType |-> "all", amount |-> 0], [orderType |-> "shares", amount |-> 1],
      [orderType |-> "percent", amount |-> 50] }

RunNodes(sizing, exits) ==
    << [MkNode(<<"open", 0>>, "price", "Open") EXCEPT !.comparison = ">"],
       [MkNode(<<"volume", 0>>, "price", "Volume") EXCEPT !.comparison = ">"],
       MkNode(<<"buy", 0>>, "action", "Buy"),
       [MkNode(<<"sell", 0>>, "action", "Sell") EXCEPT
           !.config = [NoConfig EXCEPT !.orderType = sizing.orderType,
                                       !.amount = sizing.amount]] >>
    \o [j \in 1..Len(exits) |-> ExitNode(j, exits[j])]

RunEdges ==
    << MkEdge(<<"open", 0>>, <<"buy", 0>>, ""), MkEdge(<<"volume", 0>>, <<"sell", 0>>, "") >>

InitRun ==
    /\ mode = "run"
    /\ \E sizing \in SellSizings, n \in 0..MaxExits :
          \E exits \in [1..n -> ExitChoices] :
             /\ \A i, j \in 1..n : i # j => exits[i].label # exits[j].label
             /\ nodes = RunNodes(sizing, exits)
    /\ edges = RunEdges
    /\ strategyCode = generateStrategyCode(nodes, edges)
    /\ generatedCode = strategyCode /\ appStrategyCode = strategyCode
    /\ hist = <<>>
    /\ StrategyInit(strategyCode)

NextRun == \E bar \in RunBars : Bar(bar)

SpecRun == InitRun /\ [][NextRun]_vars

----------------------------------------------------------------------------
(* Claims about the running strategy (SpecRun) *)

TrailingRules ==
    { j \in 1..Len(strategyCode.exit.nextLines) :
        strategyCode.exit.nextLines[j].rule = "Trailing Stop" }

(* C4: while a long position stays open, trailing_stop_price never decreases
   from one bar to the next, whatever the closes are. *)
C4_TrailingNeverDecreases ==
    [][(position > 0 /\ position' > 0) => trailing_stop_price' >= trailing_stop_price]_vars

(* a long position held over a bar whose close fell back: the stored level is
   above the candidate stop of that close, and the close is still above it *)
C4_Witness ==
    /\ last.ran /\ last.pos0 > 0 /\ position > 0
    /\ last.close * 100 > trailing_stop_price
    /\ TrailingRules # {} /\ last.trail0 > 0
    /\ \A j \in TrailingRules :
          trailing_stop_price > NewStop(strategyCode.exit.nextLines[j], last.close, 1)

(* C5: each time the Buy rule opens a position, the stored trailing-stop level
   is 0 (or was never assigned), whichever way the previous position was closed. *)
C5_TrailingResetOnEntry ==
    last.bought => trailing_stop_price \in {0, Unset}

(* C6: while any part of a position is held, entry_price is the close of the bar
   on which the Buy rule opened it; with no position held it is 0 (or was never
   assigned). *)
C6_EntryPriceTracksPosition ==
    ~crashed =>
       /\ position > 0 => entry_price = entry_close
       /\ position = 0 => entry_price \in {0, Unset}

(* C7: a Buy rule places an order only on a bar where no position is open, a
   Sell rule only on a bar where a position is open. *)
C7_RulesMatchPosition ==
    \A j \in 1..Len(last.orders) :
       /\ last.orders[j].by = "buy" => last.pos0 = 0
       /\ last.orders[j].by = "sell" => last.pos0 # 0

(* a bar on which the Sell rule placed its order: the Buy rule had placed one
   on an earlier bar *)
C7_Witness ==
    \E j \in 1..Len(last.orders) : last.orders[j].by = "sell"

(* the exit nodes the generator emits a rule for, in node order: every Stop
   Loss and Take Profit, and the Trailing Stops of percent or ATR basis *)
ExitRuleNodes ==
    LET rules == SelectSeq(NodesOfType(nodes, "exit"),
                     LAMBDA n : ~(n.label = "Trailing Stop" /\ n.config.type = "fixed"))
    IN [j \in 1..Len(rules) |-> rules[j].id]

(* C8: on a bar with a position open every exit rule is evaluated exactly once,
   in node order, whatever the Buy and Sell conditions are; on a bar with no
   position none is evaluated and the trailing-stop level is left alone. *)
C8_ExitsOncePerBarInOrder ==
    last.ran =>
       IF last.pos0 # 0
       THEN last.evald = ExitRuleNodes
       ELSE last.evald = <<>> /\ trailing_stop_price = last.trail0

(* a bar with a position open and two exit rules, on which the Sell rule also
   placed an order *)
C8_Witness ==
    /\ last.ran /\ last.pos0 # 0 /\ Len(last.evald) = 2
    /\ \E j \in 1..Len(last.orders) : last.orders[j].by = "sell"

(* C9: the first exit rule that signals closure on a bar wins: no rule later in
   node order signals closure or changes entry_price or the trailing-stop level
   on that bar. *)
C9_FirstTriggerWins ==
    Len(last.signalled) <= 1 /\ ~last.late

----------------------------------------------------------------------------
(* Evaluating one compiled condition bar by bar: a Price node on Close, with a
   comparison, a bar offset and a lookback, compared with a literal or with a
   CompareInput source on Open, feeds a Buy.  The engine appends a bar and
   next() evaluates the Buy rule's condition on the bars seen so far. *)

NodeId == <<"node", 0>>
SourceId == <<"source", 0>>
BuyId == <<"buy", 0>>

Comparisons == {">", "<", "==", ">=", "<=", "crosses_above", "crosses_below"}

CondNodes(comparison, barOffset, lookback) ==
    << [MkNode(NodeId, "price", "Close") EXCEPT
           !.comparison = comparison, !.compareValue = 30,
           !.barOffset = barOffset, !.lookback = lookback],
       MkNode(BuyId, "action", "Buy") >>

SourceNode(barOffset) ==
    [MkNode(SourceId, "price", "Open") EXCEPT !.barOffset = barOffset]

(* the bars fed: closes around the literal 30, or closes and opens that cross *)
CondBars ==
    IF HasNode(nodes, SourceId)
    THEN { [s \in {Close, <<"Open", 0>>} |-> IF s = Close THEN c ELSE o] :
              c \in {28, 32}, o \in {28, 32} }
    ELSE { [s \in {Close, <<"Open", 0>>} |-> IF s = Close THEN c ELSE 0] :
              c \in {28, 30, 32, 35} }

InitCond ==
    /\ mode = "cond"
    /\ \E comparison \in Comparisons, barOffset \in 0..MaxOffset, lookback \in 0..MaxLookback :
          \/ /\ nodes = CondNodes(comparison, barOffset, lookback)
             /\ edges = << MkEdge(NodeId, BuyId, "") >>
          \/ \E sourceOffset \in {0, MaxOffset} :
                /\ nodes = CondNodes(comparison, barOffset, lookback)
                              \o << SourceNode(sourceOffset) >>
                /\ edges = << MkEdge(NodeId, BuyId, ""),
                              MkEdge(SourceId, NodeId, "compare-input") >>
    /\ strategyCode = generateStrategyCode(nodes, edges)
    /\ generatedCode = strategyCode /\ appStrategyCode = strategyCode
    /\ hist = <<>>
    /\ StrategyInit(strategyCode)

(* next() on the bars seen so far: last.ran is that the condition could be read
   (no index before the first bar), last.bought that it held *)
Tick(bar) ==
    /\ mode = "cond"
    /\ Len(hist) < MaxBars
    /\ hist' = Append(hist, bar)
    /\ \E condition \in {strategyCode.buy[1].condition} :
       \E readable \in {Len(hist') >= BarsNeeded(condition, 0)} :
          last' = [NoCall EXCEPT !.close = bar[Close], !.ran = readable,
                                 !.bought = readable /\ EvalCond(condition, hist', 0)]
    /\ UNCHANGED <<nodes, edges, mode, strategyCode, generatedCode, appStrategyCode,
                   position, entry_price, trailing_stop_price, crashed, entry_close>>

NextCond == \E bar \in CondBars : Tick(bar)

SpecCond == InitCond /\ [][NextCond]_vars

----------------------------------------------------------------------------
(* Claims about one compiled condition (SpecCond) *)

TheNode == NodeOf(nodes, NodeId)

(* the node's value and its compare operand on bar u of the history (bar 1 is
   the oldest): the close, and the literal or the CompareInput source's open *)
ValueAt(u) == hist[u][Close]
OperandAt(u) ==
    IF HasCompareInput(edges, NodeId) THEN hist[u][<<"Open", 0>>]
    ELSE TheNode.compareValue

(* C2: on a bar t that has a previous bar, a crosses_above condition holds iff
   value(t-1) <= operand(t-1) and value(t) > operand(t), a crosses_below
   condition iff value(t-1) >= operand(t-1) and value(t) < operand(t); the
   operand is the literal or the CompareInput source sampled at the same two
   bars, whatever bar offsets the two nodes carry. *)
C2_CrossoverAtSameTwoBars ==
    LET t == Len(hist)
    IN (mode = "cond" /\ TheNode.lookback = 0 /\ t >= 2) =>
          /\ TheNode.comparison = "crosses_above" =>
                /\ last.ran
                /\ last.bought = (/\ ValueAt(t - 1) <= OperandAt(t - 1)
                                  /\ ValueAt(t) > OperandAt(t))
          /\ TheNode.comparison = "crosses_below" =>
                /\ last.ran
                /\ last.bought = (/\ ValueAt(t - 1) >= OperandAt(t - 1)
                                  /\ ValueAt(t) < OperandAt(t))

(* the closes 35, 28, 32 against the literal 30: the crossing is seen on bar 3 *)
C2_Witness ==
    /\ mode = "cond" /\ TheNode.comparison = "crosses_above" /\ TheNode.lookback = 0
    /\ ~HasCompareInput(edges, NodeId)
    /\ [u \in 1..Len(hist) |-> hist[u][Close]] = <<35, 28, 32>>
    /\ last.bought

(* a condition with every series reference in it moved k bars into the past *)
ShiftExpr(e, k) == IF e.k = "ser" THEN [e EXCEPT !.idx = e.idx + k] ELSE e

RECURSIVE ShiftCond(_, _)
ShiftCond(c, k) ==
    IF c.k = "cmp" THEN [c EXCEPT !.l = ShiftExpr(c.l, k), !.r = ShiftExpr(c.r, k)]
    ELSE [c EXCEPT !.args = [j \in 1..Len(c.args) |-> ShiftCond(c.args[j], k)]]

(* C3: with a lookback N > 0, on a bar with enough bars before it, the compiled
   condition holds iff the node's lookback-free condition, every series
   reference in it moved k bars into the past, holds for some k in 0..N-1:
   for every comparison and every bar offset of the node and of its source. *)
C3_LookbackIsAnyOfShifted ==
    LET N == TheNode.lookback
        base == BaseCondition(nodes, edges, NodeId)
    IN (mode = "cond" /\ N > 0 /\ Len(hist) >= BarsNeeded(base, 0) + N - 1) =>
          /\ last.ran
          /\ last.bought = \E k \in 0..(N - 1) : EvalCond(ShiftCond(base, k), hist, 0)

----------------------------------------------------------------------------
(* The editor: nodes placed on the canvas are connected one edge at a time;
   every change of the graph regenerates the strategy code. *)

PriceId == <<"price", 1>>
LogicIds == {<<"logic", 1>>, <<"logic", 2>>}

(* the target handles a node renders *)
TargetHandles(node) ==
    CASE node.type = "logic" ->
            IF node.label = "NOT" THEN {"input-1"} ELSE {"input-1", "input-2"}
      [] node.type \in {"indicator", "price"} -> {"compare-input"}
      [] OTHER -> {""}

(* a variant without the test for an Action node that already has an input *)
isValidConnectionManyInputs(ns, es, connection) ==
    IF ~HasNode(ns, connection.source) \/ ~HasNode(ns, connection.target) THEN FALSE
    ELSE LET sourceNode == NodeOf(ns, connection.source)
             targetNode == NodeOf(ns, connection.target)
         IN IF sourceNode.type = "action" THEN FALSE
            ELSE IF sourceNode.type = "logic" /\ targetNode.type \notin {"action", "logic"}
                 THEN FALSE
            ELSE IF /\ sourceNode.type \in {"indicator", "price"}
                    /\ targetNode.type \notin {"logic", "action", "indicator", "price"}
                 THEN FALSE
            ELSE ~\E i \in 1..Len(es) : es[i] = connection

isValidConnection(ns, es, connection) ==
    IF ~HasNode(ns, connection.source) \/ ~HasNode(ns, connection.target) THEN FALSE
    ELSE LET sourceNode == NodeOf(ns, connection.source)
             targetNode == NodeOf(ns, connection.target)
         IN IF sourceNode.type = "action" THEN FALSE
            ELSE IF /\ targetNode.type = "action"
                    /\ \E i \in 1..Len(es) : es[i].target = connection.target
                 THEN FALSE
            ELSE IF sourceNode.type = "logic" /\ targetNode.type \notin {"action", "logic"}
                 THEN FALSE
            ELSE IF /\ sourceNode.type \in {"indicator", "price"}
                    /\ targetNode.type \notin {"logic", "action", "indicator", "price"}
                 THEN FALSE
            ELSE ~\E i \in 1..Len(es) : es[i] = connection

(* onConnect: addEdge(connection, edges) *)
onConnect(es, connection) == Append(es, connection)

(* the connections a user can drag on the canvas: from any node's output to a
   target handle of any node *)
Connections ==
    { MkEdge(nodes[i].id, nodes[j].id, h) :
         i \in 1..Len(nodes), j \in 1..Len(nodes),
         h \in {"input-1", "input-2", "compare-input", ""} }

handleConnect(connection) ==
    /\ mode = "edit"
    /\ Len(edges) < MaxEdges
    /\ connection.targetHandle \in TargetHandles(NodeOf(nodes, connection.target))
    /\ edges' = IF isValidConnection(nodes, edges, connection)
                THEN onConnect(edges, connection) ELSE edges
    /\ strategyCode' = IF edges' # edges /\ Len(nodes) > 0
                       THEN generateStrategyCode(nodes, edges')
                       ELSE strategyCode
    /\ generatedCode' = IF edges' # edges /\ Len(nodes) > 0 THEN strategyCode' ELSE generatedCode
    /\ appStrategyCode' = IF edges' # edges /\ Len(nodes) > 0 THEN strategyCode'
                          ELSE appStrategyCode
    /\ UNCHANGED <<nodes, mode, hist, position, entry_price, trailing_stop_price,
                   crashed, entry_close, last>>

(* the canvas: a Price node `Close > 30`, two Logic nodes and a Buy *)
LogicLabels == { <<"AND", "NOT">>, <<"OR", "AND">>, <<"NOT", "OR">> }

EditNodes(labels) ==
    << [MkNode(PriceId, "price", "Close") EXCEPT !.comparison = ">", !.compareValue = 30],
       MkNode(<<"logic", 1>>, "logic", labels[1]),
       MkNode(<<"logic", 2>>, "logic", labels[2]),
       MkNode(BuyId, "action", "Buy") >>

Init ==
    /\ mode = "edit"
    /\ \E labels \in LogicLabels : nodes = EditNodes(labels)
    /\ edges = <<>>
    /\ strategyCode = generateStrategyCode(nodes, edges)
    /\ generatedCode = strategyCode /\ appStrategyCode = strategyCode
    /\ hist = <<>>
    /\ StrategyInit(strategyCode)

Next == \E connection \in Connections : handleConnect(connection)

Spec == Init /\ [][Next]_vars

----------------------------------------------------------------------------
(* The editor from an empty canvas: nodes are dropped, connected, edited in
   place and deleted; the effect on [nodes, edges] regenerates the code. *)

MaxNodes == 2

(* the palette entries dragged onto the canvas *)
Palette == { <<"price", "Close">>, <<"indicator", "RSI">>, <<"action", "Buy">> }

(* the effect of StrategyBuilder after the store's nodes or edges changed *)
AutoGenerate(ns, es, code) == IF Len(ns) > 0 THEN generateStrategyCode(ns, es) ELSE code

(* onDrop: addNode of a node with the palette's label, type and config under a
   fresh id `${type}_${Date.now()}` *)
onDrop(nodeData) ==
    /\ mode = "edit"
    /\ Len(nodes) < MaxNodes
    /\ \E n \in 1..MaxNodes :
          /\ ~HasNode(nodes, <<nodeData[1], n>>)
          /\ \A m \in 1..(n - 1) : HasNode(nodes, <<nodeData[1], m>>)
          /\ nodes' = Append(nodes, MkNode(<<nodeData[1], n>>, nodeData[1], nodeData[2]))
    /\ strategyCode' = AutoGenerate(nodes', edges, strategyCode)
    /\ generatedCode' = IF Len(nodes') > 0 THEN strategyCode' ELSE generatedCode
    /\ appStrategyCode' = IF Len(nodes') > 0 THEN strategyCode' ELSE appStrategyCode
    /\ UNCHANGED <<edges, mode, hist, position, entry_price, trailing_stop_price,
                   crashed, entry_close, last>>

(* what the Delete key removes: the selected node or the selected edge *)
Selections ==
    { [kind |-> "node", at |-> i] : i \in 1..MaxNodes }
       \cup { [kind |-> "edge", at |-> k] : k \in 1..MaxEdges }

(* the Delete key (deleteKeyCode): onNodesChange and onEdgesChange with the
   `remove` changes of the selection; a node goes with the edges connected to it *)
deleteElements(selection) ==
    /\ mode = "edit"
    /\ IF selection.kind = "node"
       THEN /\ selection.at \in 1..Len(nodes)
            /\ nodes' = SelectSeq(nodes, LAMBDA n : n.id # nodes[selection.at].id)
            /\ edges' = SelectSeq(edges, LAMBDA e : /\ e.source # nodes[selection.at].id
                                                    /\ e.target # nodes[selection.at].id)
       ELSE /\ selection.at \in 1..Len(edges)
            /\ nodes' = nodes
            /\ edges' = SelectSeq(edges, LAMBDA e : e # edges[selection.at])
    /\ strategyCode' = AutoGenerate(nodes', edges', strategyCode)
    /\ generatedCode' = IF Len(nodes') > 0 THEN strategyCode' ELSE generatedCode
    /\ appStrategyCode' = IF Len(nodes') > 0 THEN strategyCode' ELSE appStrategyCode
    /\ UNCHANGED <<mode, hist, position, entry_price, trailing_stop_price,
                   crashed, entry_close, last>>

(* the in-node edits of an Indicator or Price node *)
Updates ==
    { [field |-> "comparison", comparison |-> op, compareValue |-> 0] : op \in {"<", ">"} }
       \cup { [field |-> "compareValue", comparison |-> "", compareValue |-> v] : v \in {30, 70} }

(* updateNodeData: Object.assign(data, ...) writes into the node's data object;
   the store's nodes array is the same array, so no effect runs *)
updateNodeData(i, updates) ==
    /\ mode = "edit"
    /\ i \in 1..Len(nodes)
    /\ nodes[i].type \in {"indicator", "price"}
    /\ nodes' = IF updates.field = "comparison"
                THEN [nodes EXCEPT ![i].comparison = updates.comparison]
                ELSE [nodes EXCEPT ![i].compareValue = updates.compareValue]
    /\ UNCHANGED <<edges, strategyCode, generatedCode, appStrategyCode, mode, hist,
                   position, entry_price, trailing_stop_price, crashed, entry_close, last>>

(* resetFlow (Clear All): nodes [], edges [], strategyCode ''; the effect of the
   builder does not run its body for an empty graph *)
resetFlow ==
    /\ mode = "edit"
    /\ nodes' = <<>> /\ edges' = <<>>
    /\ strategyCode' = NoCode
    /\ UNCHANGED <<generatedCode, appStrategyCode, mode, hist, position, entry_price, trailing_stop_price,
                   crashed, entry_close, last>>

(* the canvas after Clear All *)
InitEdit ==
    /\ mode = "edit"
    /\ nodes = <<>> /\ edges = <<>>
    /\ strategyCode = NoCode
    /\ generatedCode = NoCode /\ appStrategyCode = NoCode
    /\ hist = <<>>
    /\ StrategyInit(strategyCode)

NextEdit ==
    \/ \E nodeData \in Palette : onDrop(nodeData)
    \/ \E connection \in Connections : handleConnect(connection)
    \/ \E selection \in Selections : deleteElements(selection)
    \/ \E i \in 1..MaxNodes, updates \in Updates : updateNodeData(i, updates)
    \/ resetFlow

SpecEdit == InitEdit /\ [][NextEdit]_vars

----------------------------------------------------------------------------
(* Claims about the compiled graph (Spec) *)

(* the bars a compiled predicate is evaluated on *)
LogicBars == { [s \in {Close} |-> c] : c \in {28, 32} }

Holds(c, bar) == EvalCond(c, <<bar>>, 0)

(* the nodes a node is reached from through Flow edges *)
RECURSIVE AncestorsFrom(_, _)
AncestorsFrom(es, set) ==
    LET more == set \cup { es[i].source : i \in { k \in 1..Len(es) :
                              es[k].target \in set /\ es[k].targetHandle # "compare-input" } }
    IN IF more = set THEN set ELSE AncestorsFrom(es, more)

Ancestors(es, id) ==
    AncestorsFrom(es, { es[i].source : i \in { k \in 1..Len(es) :
                           es[k].target = id /\ es[k].targetHandle # "compare-input" } })

OnCycle(es, id) == id \in Ancestors(es, id)

(* C1: a Logic node with Flow parents P1..Pn (n >= 1) compiles to a predicate
   that on every bar is the conjunction (AND) or the disjunction (OR) of the
   predicates its parents compile to, and for a NOT with its one parent the
   negation of that parent's predicate: in every compilation of the node, and
   with the parents compiled on their own when no cycle leads into the node. *)
C1_LogicCombinesParents ==
    \A L \in LogicIds :
       LET node == NodeOf(nodes, L)
           ps == Parents(edges, L)
           Combined(of(_)) ==
              CASE node.label = "AND" -> \A j \in 1..Len(ps) : of(j)
                [] node.label = "OR" -> \E j \in 1..Len(ps) : of(j)
                [] node.label = "NOT" -> ~of(1)
       IN (Len(ps) >= 1 /\ (node.label = "NOT" => Len(ps) = 1)) =>
            \A bar \in LogicBars :
               /\ \A visited \in SUBSET (LogicIds \ {L}) :
                     LET inner(j) == Holds(generateNodeCondition(nodes, edges, ps[j],
                                                                 visited \cup {L}), bar)
                     IN Holds(generateNodeCondition(nodes, edges, L, visited), bar)
                           = Combined(inner)
               /\ (\A a \in Ancestors(edges, L) \cup {L} : ~OnCycle(edges, a)) =>
                     LET alone(j) == Holds(generateNodeCondition(nodes, edges, ps[j], {}), bar)
                     IN Holds(generateNodeCondition(nodes, edges, L, {}), bar)
                           = Combined(alone)

(* a two-input gate whose parents disagree on some bar: the Price node and a
   NOT gate over the Price node *)
C1_Witness ==
    \E L \in LogicIds, M \in LogicIds :
       /\ NodeOf(nodes, L).label \in {"AND", "OR"}
       /\ NodeOf(nodes, M).label = "NOT"
       /\ Parents(edges, M) = <<PriceId>>
       /\ Parents(edges, L) = <<PriceId, M>>
       /\ \E bar \in LogicBars :
             Holds(generateNodeCondition(nodes, edges, PriceId, {}), bar)
                # Holds(generateNodeCondition(nodes, edges, M, {}), bar)

(* C10: when the Flow edges form a cycle among the predecessors of an Action
   node, compiling fails: no strategy with a rule is produced. *)
C10_CycleRejected ==
    \A i \in 1..Len(nodes) :
       (/\ nodes[i].type = "action"
        /\ \E a \in Ancestors(edges, nodes[i].id) : OnCycle(edges, a))
          => strategyCode.kind # "strategy"

----------------------------------------------------------------------------
(* Compiling graphs handed to the store: setNodes and setEdges replace the
   graph, the builder's effect regenerates the code when the graph has a node,
   and the Generate Code button compiles whatever the graph is. *)

MaxIndicators == 2

Graph(ns, es) == [nodes |-> ns, edges |-> es]

GhostId == <<"ghost", 0>>
SellId == <<"sell", 0>>
NotId == <<"not", 0>>
IndicatorId(j) == <<"indicator", j>>

PriceNode(id, label) ==
    [MkNode(id, "price", label) EXCEPT !.comparison = ">", !.compareValue = 30]

IndicatorNode(id, kind, period, comparison, compareValue) ==
    [MkNode(id, "indicator", kind) EXCEPT
        !.comparison = comparison, !.compareValue = compareValue,
        !.config = [NoConfig EXCEPT !.period = period]]

ActionNode(id, label, orderType, amount) ==
    [MkNode(id, "action", label) EXCEPT
        !.config = [NoConfig EXCEPT !.orderType = orderType, !.amount = amount]]

(* graphs without an Action node: up to two nodes of the other types, with or
   without an edge between them *)
OtherNodes ==
    { IndicatorNode(IndicatorId(1), "RSI", 14, "<", 30), PriceNode(PriceId, "Close"),
      MkNode(NotId, "logic", "AND"),
      [MkNode(<<"exit", 1>>, "exit", "Stop Loss") EXCEPT !.config.type = "atr"] }

GraphsWithoutAction ==
    { Graph(<<>>, <<>>) }
    \cup { Graph(<<a>>, <<>>) : a \in OtherNodes }
    \cup { Graph(<<p[1], p[2]>>,
                  IF connected THEN << MkEdge(p[1].id, p[2].id, "input-1") >> ELSE <<>>) :
               p \in { q \in OtherNodes \X OtherNodes : q[1] # q[2] },
               connected \in BOOLEAN }

(* a NOT gate before a Buy, with no, one or two Flow parents *)
GraphsWithNot ==
    { Graph(<< PriceNode(PriceId, "Close"), PriceNode(SourceId, "Open"),
               MkNode(NotId, "logic", "NOT"), ActionNode(BuyId, "Buy", "", 0) >>,
            [j \in 1..Len(ps) |-> MkEdge(ps[j], NotId, "input-1")]
               \o << MkEdge(NotId, BuyId, "") >>) :
         ps \in { <<>>, <<PriceId>>, <<SourceId>>, <<PriceId, SourceId>>, <<SourceId, PriceId>> } }

(* a Price node before a Buy, with no, one or two CompareInput sources *)
GraphsWithCompareInputs ==
    { Graph(<< PriceNode(NodeId, "Close"), PriceNode(SourceId, "Open"),
               PriceNode(PriceId, "High"), ActionNode(BuyId, "Buy", "", 0) >>,
            << MkEdge(NodeId, BuyId, "") >>
               \o [j \in 1..Len(ss) |-> MkEdge(ss[j], NodeId, "compare-input")]) :
         ss \in { <<>>, <<SourceId>>, <<PriceId>>, <<SourceId, PriceId>>, <<PriceId, SourceId>> } }

(* a Price node before a Buy, and one more edge that may name a node the graph
   does not have *)
GraphsWithExtraEdge ==
    { Graph(<< PriceNode(NodeId, "Close"), ActionNode(BuyId, "Buy", "", 0) >>,
            << MkEdge(NodeId, BuyId, ""), MkEdge(a, b, h) >>) :
         a \in {NodeId, GhostId}, b \in {NodeId, BuyId, GhostId},
         h \in {"", "compare-input"} }

(* a Price node before a Buy and a Sell of the same sizing mode and amount
   (amount 0: none entered) *)
OrderTypes == {"", "all", "cash", "shares", "percent"}
Amounts == {0 - 10, 0, 50, 100, 150}

GraphsWithSizing ==
    { Graph(<< PriceNode(NodeId, "Close"), ActionNode(BuyId, "Buy", orderType, amount),
               ActionNode(SellId, "Sell", orderType, amount) >>,
            << MkEdge(NodeId, BuyId, ""), MkEdge(NodeId, SellId, "") >>) :
         orderType \in OrderTypes, amount \in Amounts }

(* one Indicator node with a standard comparison before a Buy of all cash *)
IndicatorKinds ==
    {"RSI", "SMA", "EMA", "MACD", "Bollinger Bands", "ATR", "Stochastic", "ADX"}

GraphsWithOneIndicator ==
    { Graph(<< IndicatorNode(IndicatorId(1), kind, period, comparison, compareValue),
               ActionNode(BuyId, "Buy", "all", 0) >>,
            << MkEdge(IndicatorId(1), BuyId, "") >>) :
         kind \in IndicatorKinds, period \in {0, 14},
         comparison \in {">", "<", "==", ">=", "<="}, compareValue \in {30, 70} }

(* two to MaxIndicators Indicator nodes, some of the same name and period,
   joined by an AND before a Buy *)
GraphsWithIndicators ==
    UNION { { Graph([j \in 1..n |-> IndicatorNode(IndicatorId(j), choice[j][1], choice[j][2], "<", 30)]
                       \o << MkNode(NotId, "logic", "AND"), ActionNode(BuyId, "Buy", "all", 0) >>,
                    [j \in 1..n |-> MkEdge(IndicatorId(j), NotId, "input-1")]
                       \o << MkEdge(NotId, BuyId, "") >>) :
                 choice \in [1..n -> {"RSI", "SMA"} \X {0, 14, 20}] } :
            n \in 2..MaxIndicators }

(* an exit node of ATR basis with its own ATR period (0: none stored) *)
AtrExitNode(j, label, period) ==
    [MkNode(<<"exit", j>>, "exit", label) EXCEPT
        !.config = [NoConfig EXCEPT !.type = "atr", !.value = 1, !.multiplier = 1,
                                    !.period = period]]

(* a Buy on `Close > 30` with a Stop Loss and a Take Profit or Trailing Stop,
   both of ATR basis *)
GraphsWithAtrExits ==
    { Graph(<< PriceNode(NodeId, "Close"), ActionNode(BuyId, "Buy", "all", 0),
               AtrExitNode(1, "Stop Loss", p1), AtrExitNode(2, label, p2) >>,
            << MkEdge(NodeId, BuyId, "") >>) :
         p1 \in {0, 7, 14}, p2 \in {0, 7, 14}, label \in {"Take Profit", "Trailing Stop"} }

(* the parameter sets an Indicator node's editor stores, by kind; 0 is a
   parameter the node does not store *)
ParamSets(kind) ==
    CASE kind = "MACD" -> { [NoConfig EXCEPT !.fast = 12, !.slow = 26, !.signal = 9],
                            [NoConfig EXCEPT !.fast = 5, !.slow = 35, !.signal = 5],
                            NoConfig }
      [] kind = "Bollinger Bands" -> { [NoConfig EXCEPT !.period = 20, !.std = 2],
                                       [NoConfig EXCEPT !.period = 10, !.std = 3] }
      [] kind = "Stochastic" -> { [NoConfig EXCEPT !.kPeriod = 14, !.dPeriod = 3],
                                  [NoConfig EXCEPT !.kPeriod = 14, !.dPeriod = 5],
                                  [NoConfig EXCEPT !.kPeriod = 5, !.dPeriod = 3] }
      [] OTHER -> { [NoConfig EXCEPT !.period = 12], [NoConfig EXCEPT !.period = 26] }

(* two Indicator nodes of one kind, each with its own parameter set, joined by
   an AND before a Buy *)
GraphsWithParameters ==
    UNION { { Graph(<< [MkNode(IndicatorId(1), "indicator", kind) EXCEPT
                           !.comparison = "<", !.compareValue = 30, !.config = c1],
                       [MkNode(IndicatorId(2), "indicator", kind) EXCEPT
                           !.comparison = ">", !.compareValue = 70, !.config = c2],
                       MkNode(NotId, "logic", "AND"), ActionNode(BuyId, "Buy", "all", 0) >>,
                    << MkEdge(IndicatorId(1), NotId, "input-1"),
                       MkEdge(IndicatorId(2), NotId, "input-2"),
                       MkEdge(NotId, BuyId, "") >>) :
                 c1 \in ParamSets(kind), c2 \in ParamSets(kind) } :
            kind \in {"MACD", "Bollinger Bands", "Stochastic", "EMA"} }

(* a Buy or a Sell with no to three Flow parents, and possibly a compare-input
   edge that ends at the Action node *)
ActionParents ==
    << [PriceNode(NodeId, "Close") EXCEPT !.comparison = ">", !.compareValue = 30],
       [PriceNode(SourceId, "Close") EXCEPT !.comparison = "<", !.compareValue = 30],
       [PriceNode(PriceId, "Close") EXCEPT !.comparison = ">=", !.compareValue = 28] >>

ParentOrders ==
    { <<>> } \cup { <<a>> : a \in 1..3 }
       \cup { q \in (1..3) \X (1..3) : q[1] # q[2] }
       \cup { q \in (1..3) \X (1..3) \X (1..3) : q[1] # q[2] /\ q[1] # q[3] /\ q[2] # q[3] }

GraphsWithActionParents ==
    { Graph(ActionParents \o << ActionNode(BuyId, label, "", 0) >>,
            (IF c = 0 THEN <<>> ELSE << MkEdge(ActionParents[c].id, BuyId, "compare-input") >>)
               \o [j \in 1..Len(ps) |-> MkEdge(ActionParents[ps[j]].id, BuyId, "")]) :
         label \in {"Buy", "Sell"}, ps \in ParentOrders, c \in 0..3 }

(* two Price nodes, two gates and a Buy: the first Price node feeds the first
   gate and the second gate the Buy; of the other edges below any may be
   drawn, so that a node may feed both gates, the gates may feed each other or
   themselves, and an edge may come from a node the graph does not have *)
GateEdges ==
    << MkEdge(NodeId, <<"logic", 1>>, "input-1"), MkEdge(<<"logic", 2>>, BuyId, ""),
       MkEdge(SourceId, <<"logic", 1>>, "input-2"),
       MkEdge(NodeId, <<"logic", 2>>, "input-1"), MkEdge(<<"logic", 1>>, <<"logic", 2>>, "input-2"),
       MkEdge(<<"logic", 2>>, <<"logic", 1>>, "input-2"),
       MkEdge(<<"logic", 1>>, <<"logic", 1>>, "input-1"),
       MkEdge(GhostId, <<"logic", 2>>, "input-1") >>

RECURSIVE Chosen(_, _, _)
Chosen(es, choice, i) ==
    IF i > Len(es) THEN <<>>
    ELSE (IF i \in choice THEN <<es[i]>> ELSE <<>>) \o Chosen(es, choice, i + 1)

GraphsWithGates ==
    { Graph(<< [PriceNode(NodeId, "Close") EXCEPT !.comparison = ">", !.compareValue = 30],
               [PriceNode(SourceId, "Close") EXCEPT !.comparison = "<", !.compareValue = 35],
               MkNode(<<"logic", 1>>, "logic", labels[1]),
               MkNode(<<"logic", 2>>, "logic", labels[2]),
               ActionNode(BuyId, "Buy", "", 0) >>,
            Chosen(GateEdges, choice, 1)) :
         labels \in { <<"NOT", "AND">>, <<"AND", "OR">>, <<"OR", "AND">> },
         choice \in { {1, 2} \cup more : more \in SUBSET (3..Len(GateEdges)) } }

(* one gate before a Buy, and one more edge into the gate: from itself, from
   the Buy, from a node the graph does not have, or none *)
GraphsWithLoop ==
    { Graph(<< MkNode(NotId, "logic", label), ActionNode(BuyId, "Buy", "", 0) >>,
            << MkEdge(NotId, BuyId, "") >>
               \o (IF a = 0 THEN <<>> ELSE << MkEdge(<<NotId, BuyId, GhostId>>[a], NotId, "input-1") >>)) :
         label \in {"AND", "OR", "NOT"}, a \in 0..3 }

Graphs ==
    GraphsWithLoop \cup GraphsWithGates \cup GraphsWithActionParents \cup GraphsWithParameters \cup GraphsWithoutAction \cup GraphsWithNot \cup GraphsWithCompareInputs
       \cup GraphsWithExtraEdge \cup GraphsWithSizing \cup GraphsWithOneIndicator
       \cup GraphsWithIndicators \cup GraphsWithAtrExits

(* setNodes and setEdges, then the effect: the code is regenerated only when
   the graph has a node; mode "compiled" is that it was *)
setGraph(g) ==
    /\ mode \in {"loaded", "compiled"}
    /\ nodes' = g.nodes
    /\ edges' = g.edges
    /\ IF Len(g.nodes) > 0
       THEN /\ strategyCode' = generateStrategyCode(g.nodes, g.edges) /\ mode' = "compiled"
            /\ generatedCode' = strategyCode' /\ appStrategyCode' = strategyCode'
       ELSE /\ strategyCode' = strategyCode /\ mode' = "loaded"
            /\ UNCHANGED <<generatedCode, appStrategyCode>>
    /\ UNCHANGED <<hist, position, entry_price, trailing_stop_price, crashed,
                   entry_close, last>>

(* the Generate Code button *)
handleGenerateCode ==
    /\ mode \in {"loaded", "compiled"}
    /\ strategyCode' = generateStrategyCode(nodes, edges)
    /\ generatedCode' = strategyCode' /\ appStrategyCode' = strategyCode'
    /\ mode' = "compiled"
    /\ UNCHANGED <<nodes, edges, hist, position, entry_price, trailing_stop_price,
                   crashed, entry_close, last>>

InitCompile ==
    /\ mode = "loaded"
    /\ nodes = <<>>
    /\ edges = <<>>
    /\ strategyCode = generateStrategyCode(nodes, edges)
    /\ generatedCode = strategyCode /\ appStrategyCode = strategyCode
    /\ hist = <<>>
    /\ StrategyInit(strategyCode)

NextCompile ==
    \/ \E g \in Graphs : setGraph(g)
    \/ handleGenerateCode

SpecCompile == InitCompile /\ [][NextCompile]_vars

----------------------------------------------------------------------------
(* Claims about compiling a graph (SpecCompile) *)

NoActionNode == \A i \in 1..Len(nodes) : nodes[i].type # "action"

(* nothing of a strategy: no indicator line, no Buy or Sell rule, no exit rule
   and no exit state *)
NothingCompiled(code) ==
    /\ code.inits = <<>> /\ code.buy = <<>> /\ code.sell = <<>>
    /\ code.exit.nextLines = <<>> /\ ~code.exit.initEntry /\ ~code.exit.initTrailing
    /\ code.exit.atrPeriod = 0

(* C11 as stated: every graph without an Action node, the empty graph
   included, compiles to the NoActionNodes outcome and to nothing of a strategy. *)
C11_NoActionNodesOutcome ==
    (mode = "compiled" /\ NoActionNode) =>
        strategyCode.kind = "noaction" /\ NothingCompiled(strategyCode)

(* C11 amended: a graph with nodes and no Action node compiles to the
   NoActionNodes outcome, the empty graph to the empty string; either way to
   nothing of a strategy, whatever other nodes and edges the graph has. *)
C11_NoActionNoStrategy ==
    (mode = "compiled" /\ NoActionNode) =>
        /\ strategyCode.kind = IF Len(nodes) = 0 THEN "empty" ELSE "noaction"
        /\ NothingCompiled(strategyCode)

(* a compiled graph of an Indicator node connected to an ATR Stop Loss node *)
C11_Witness ==
    /\ mode = "compiled" /\ NoActionNode /\ Len(edges) = 1
    /\ \E i, j \in 1..Len(nodes) : nodes[i].type = "indicator" /\ nodes[j].type = "exit"

(* C12: a NOT node with one Flow parent compiles to the negation of that
   parent's predicate; with no Flow parent or with more than one, compiling
   fails instead of producing a strategy. *)
C12_NotNeedsOneParent ==
    mode = "compiled" =>
       \A i \in 1..Len(nodes) :
          (nodes[i].type = "logic" /\ nodes[i].label = "NOT") =>
             LET ps == Parents(edges, nodes[i].id)
             IN IF Len(ps) = 1
                THEN generateNodeCondition(nodes, edges, nodes[i].id, {})
                        = Not(generateNodeCondition(nodes, edges, ps[1], {nodes[i].id}))
                ELSE strategyCode.kind # "strategy"

(* C13: a graph in which two CompareInput edges target the same node is
   rejected: no strategy is compiled from it. *)
C13_OneCompareInput ==
    mode = "compiled" =>
       \A i \in 1..Len(nodes) :
          Cardinality({ k \in 1..Len(edges) :
                          /\ edges[k].target = nodes[i].id
                          /\ edges[k].targetHandle = "compare-input" }) > 1
             => strategyCode.kind # "strategy"

(* C14: a graph with an edge whose source or target is not a node of the graph
   is rejected: no strategy is compiled from it. *)
C14_NoDanglingEdge ==
    (/\ mode = "compiled"
     /\ \E k \in 1..Len(edges) :
           ~HasNode(nodes, edges[k].source) \/ ~HasNode(nodes, edges[k].target))
       => strategyCode.kind # "strategy"

(* C15: an Action node sized by a percentage outside 0..100 makes compiling
   fail, and no compiled Buy or Sell rule sizes by a percentage outside 0..100. *)
C15_PercentInRange ==
    mode = "compiled" =>
       /\ ((\E i \in 1..Len(nodes) :
               /\ nodes[i].type = "action" /\ OrderType(nodes[i]) = "percent"
               /\ Amount(nodes[i]) \notin 0..100)
              => strategyCode.kind # "strategy")
       /\ \A j \in 1..Len(strategyCode.buy) :
             strategyCode.buy[j].sizeLogic.call = "buy_percent"
                => strategyCode.buy[j].sizeLogic.amount \in 0..100
       /\ \A j \in 1..Len(strategyCode.sell) :
             strategyCode.sell[j].sizeLogic.call = "sell_percent"
                => strategyCode.sell[j].sizeLogic.amount \in 0..100

(* C16: the compiled indicator lines name each (indicator, parameters) at most
   once, also when several Indicator nodes have the same name and parameters. *)
C16_IndicatorsOnce ==
    mode = "compiled" =>
       \A a, b \in 1..Len(strategyCode.inits) :
          strategyCode.inits[a] = strategyCode.inits[b] => a = b

(* the graph of the scenario: one Indicator node with a standard operator, a
   literal compare value, bar offset 0 and lookback 0, one Flow edge to one Buy
   of all cash *)
OneIndicatorBuy ==
    /\ mode = "compiled"
    /\ Len(nodes) = 2 /\ Len(edges) = 1
    /\ nodes[1].type = "indicator"
    /\ nodes[1].comparison \in {">", "<", "==", ">=", "<="}
    /\ nodes[1].barOffset = 0 /\ nodes[1].lookback = 0
    /\ nodes[2].type = "action" /\ nodes[2].label = "Buy" /\ OrderType(nodes[2]) = "all"
    /\ edges[1] = MkEdge(nodes[1].id, nodes[2].id, "")

(* the talib function of an indicator of the palette *)
TalibOf(label) ==
    CASE label = "Bollinger Bands" -> "BBANDS"
      [] label = "Stochastic" -> "STOCH"
      [] OTHER -> label

(* C17: one Indicator node (standard operator OP, literal v, bar offset 0,
   lookback 0) with one Flow edge to a Buy of all cash compiles to exactly one
   rule, a Buy with no size argument whose predicate is `series[-1] OP v`, where
   series is the one attribute the indicator lines declare: exactly one
   indicator line, of that indicator and with the node's period. *)
C17_OneIndicatorScenario ==
    OneIndicatorBuy =>
       /\ strategyCode.kind = "strategy"
       /\ Len(strategyCode.buy) = 1 /\ Len(strategyCode.sell) = 0
       /\ strategyCode.exit.nextLines = <<>>
       /\ strategyCode.buy[1].sizeLogic.call = "buy"
       /\ Len(strategyCode.inits) = 1
       /\ strategyCode.inits[1].fn = TalibOf(nodes[1].label)
       /\ (nodes[1].config.period # 0 /\ nodes[1].label \notin {"MACD", "Stochastic"})
             => strategyCode.inits[1].params[1] = nodes[1].config.period
       /\ (nodes[1].config.period # 0 /\ strategyCode.inits[1].attr[2] # 0)
             => strategyCode.inits[1].attr[2] = nodes[1].config.period
       /\ strategyCode.buy[1].condition =
             Cmp(Ser(strategyCode.inits[1].attr, 1), nodes[1].comparison,
                 Lit(nodes[1].compareValue))

(* the scenario itself: RSI with period 14, `<`, 30 gives `self.rsi_14[-1] < 30` *)
C17_Witness ==
    /\ OneIndicatorBuy
    /\ nodes[1].label = "RSI" /\ nodes[1].config.period = 14
    /\ nodes[1].comparison = "<" /\ nodes[1].compareValue = 30
    /\ strategyCode.inits = << [attr |-> <<"rsi", 14>>, fn |-> "RSI", params |-> <<14>>] >>
    /\ strategyCode.buy[1].condition.l.name = <<"rsi", 14>>
    /\ strategyCode.buy[1].condition.op = "<"
    /\ strategyCode.buy[1].condition.r.v = 30

(* the sizing rule a compiled statement stands for, read leniently: the mode
   and the amount it sizes by, whatever the quantity is taken of *)
SizingRule(sizeLogic) ==
    CASE sizeLogic.call \in {"buy", "close"} -> <<"all", 0>>
      [] sizeLogic.call = "buy_cash" -> <<"cash", sizeLogic.amount>>
      [] sizeLogic.call \in {"buy_shares", "sell_shares"} -> <<"shares", sizeLogic.amount>>
      [] sizeLogic.call \in {"buy_percent", "sell_percent"} -> <<"percent", sizeLogic.amount>>
      [] OTHER -> <<"", 0>>

(* C19: a Sell node is given the same sizing rule as a Buy node of the same
   sizing mode and amount, for each of the four modes. *)
C19_SizingIgnoresDirection ==
    mode = "compiled" =>
       \A i, j \in 1..Len(nodes) :
          (/\ nodes[i].type = "action" /\ IsBuyLabel(nodes[i].label)
           /\ nodes[j].type = "action" /\ IsSellLabel(nodes[j].label)
           /\ OrderType(nodes[i]) = OrderType(nodes[j])
           /\ Amount(nodes[i]) = Amount(nodes[j]))
             => \A b \in 1..Len(strategyCode.buy), s \in 1..Len(strategyCode.sell) :
                   (strategyCode.buy[b].node = nodes[i].id /\ strategyCode.sell[s].node = nodes[j].id)
                      => SizingRule(strategyCode.buy[b].sizeLogic)
                            = SizingRule(strategyCode.sell[s].sizeLogic)

----------------------------------------------------------------------------
(* Claims about the editor (SpecEdit) *)

(* C20: after any sequence of editor operations (drop a node, connect, delete a
   node or an edge, edit a node's comparison or compare value in place, clear),
   with every effect run, the strategy code held is generateStrategyCode of the
   current nodes and edges. *)
C20_CodeInSync ==
    mode = "edit" => strategyCode = generateStrategyCode(nodes, edges)

----------------------------------------------------------------------------
(* Claims about the exit rules of a running strategy (SpecRun) *)

(* the threshold test of a Stop Loss or Take Profit rule for a position entered
   at E, on a bar closing at close *)
ThresholdReached(b, E, close, atr) ==
    CASE b.rule = "Stop Loss" /\ b.basis = "percent" -> close * 100 <= E * (100 - b.value)
      [] b.rule = "Stop Loss" /\ b.basis = "fixed" -> close <= E - b.value
      [] b.rule = "Stop Loss" /\ b.basis = "atr" -> close <= E - b.value * atr
      [] b.rule = "Take Profit" /\ b.basis = "percent" -> close * 100 >= E * (100 + b.value)
      [] b.rule = "Take Profit" /\ b.basis = "fixed" -> close >= E + b.value
      [] OTHER -> close >= E + b.value * atr

(* C21: on a bar entered with a long position opened at price E, a Stop Loss
   rule signals close iff the bar's close is at or below E less the percentage,
   the fixed amount or the ATR multiple, and a Take Profit rule iff the close is
   at or above E plus it. *)
C21_ThresholdFromEntry ==
    [][(mode = "run" /\ position > 0 /\ ~crashed') =>
          \A j \in 1..Len(strategyCode.exit.nextLines) :
             LET b == strategyCode.exit.nextLines[j]
             IN b.rule \in {"Stop Loss", "Take Profit"} =>
                   ((\E m \in 1..Len(last'.signalled) : last'.signalled[m] = b.node)
                       <=> ThresholdReached(b, entry_close, last'.close, 1))]_vars

(* the candidate stop of a Trailing Stop node on a bar closing at close, times
   100: the close less the percentage, the fixed amount or the ATR multiple *)
Candidate(node, close, atr) ==
    CASE ExitType(node) = "percent" -> close * (100 - ExitValue(node))
      [] ExitType(node) = "fixed" -> 100 * (close - ExitValue(node))
      [] OTHER -> 100 * (close - ExitMultiplier(node) * atr)

(* a Trailing Stop node of one of the bases did, on the bar just run, what the
   rule is to do: the level is the higher of the stored level and the candidate
   of the bar's close, the rule signals iff the close is at or below that level,
   and the level is stored when it does not signal *)
TrailingStep(bases) ==
    \A i \in 1..Len(nodes) :
       (/\ nodes[i].type = "exit" /\ nodes[i].label = "Trailing Stop"
        /\ ExitType(nodes[i]) \in bases) =>
          LET cand == Candidate(nodes[i], last'.close, 1)
              level == IF cand > trailing_stop_price THEN cand ELSE trailing_stop_price
              signals == \E m \in 1..Len(last'.signalled) : last'.signalled[m] = nodes[i].id
          IN /\ signals <=> last'.close * 100 <= level
             /\ ~signals => trailing_stop_price' = level

(* C22 as stated: for each of the three bases (percent, fixed amount, ATR
   multiple) a Trailing Stop rule computes on every bar with an open position a
   candidate from the current close, raises the stored level to it when it is
   higher, and signals close when the close is at or below the stored level. *)
C22_TrailingThreeBases ==
    [][(mode = "run" /\ position > 0 /\ ~crashed')
          => TrailingStep({"percent", "fixed", "atr"})]_vars

(* C22, amended: the same for the two bases a Trailing Stop has, percent and ATR
   multiple. *)
C22_TrailingFromClose ==
    [][(mode = "run" /\ position > 0 /\ ~crashed') => TrailingStep({"percent", "atr"})]_vars

(* a Trailing Stop signalled on a level stored on an earlier bar, higher than
   the candidate of the bar's own close *)
C22_Witness ==
    /\ last.ran /\ last.pos0 > 0
    /\ \E i \in 1..Len(nodes) :
          /\ nodes[i].type = "exit" /\ nodes[i].label = "Trailing Stop"
          /\ ExitType(nodes[i]) \in {"percent", "atr"}
          /\ \E m \in 1..Len(last.signalled) : last.signalled[m] = nodes[i].id
          /\ last.trail0 > Candidate(nodes[i], last.close, 1)
          /\ last.close * 100 <= last.trail0

----------------------------------------------------------------------------
(* Claims about the compare operand of one compiled condition (SpecCond) *)

(* the node has a CompareInput edge from the source node *)
SourceWired ==
    \E k \in 1..Len(edges) :
       edges[k] = MkEdge(SourceId, NodeId, "compare-input")

(* the comparisons of the Buy rule's condition, inside the lookback's any() if
   there is one: one for a standard operator, two for a crossover *)
CompiledComparisons ==
    LET c == strategyCode.buy[1].condition
        u == IF c.k = "any" THEN c.args[1] ELSE c
    IN IF u.k = "cmp" THEN <<u>> ELSE u.args

(* the right-hand side is the source's series (Open) read idx bars back *)
OperandIsSource(cmp, idx) ==
    cmp.r.k = "ser" /\ cmp.r.name = <<"Open", 0>> /\ cmp.r.idx = idx

OperandIsLiteral(cmp) == cmp.r.k = "lit" /\ cmp.r.v = TheNode.compareValue

StandardOperator == TheNode.comparison \in {">", "<", "==", ">=", "<="}

(* C23 as stated: with a CompareInput edge the compare operand is the source's
   series, read at the same bar as the node's own series, for standard
   operators as for crossovers and whatever bar offsets the two nodes have;
   without one it is the literal compare value. *)
C23_OperandAtSameBar ==
    mode = "cond" =>
       \A j \in 1..Len(CompiledComparisons) :
          IF SourceWired
          THEN OperandIsSource(CompiledComparisons[j], CompiledComparisons[j].l.idx)
          ELSE OperandIsLiteral(CompiledComparisons[j])

(* C23, amended: with a CompareInput edge the compare operand is the source's
   series; a crossover reads it at the same two bars as the node's own series,
   a standard operator reads each series at its own node's bar offset, so that
   `Close OP Open` is decided on the closes and opens those offsets name;
   without a CompareInput edge the operand is the literal compare value. *)
C23_OperandAtOwnOffset ==
    mode = "cond" =>
       /\ \A j \in 1..Len(CompiledComparisons) :
             LET cmp == CompiledComparisons[j]
             IN IF ~SourceWired THEN OperandIsLiteral(cmp)
                ELSE IF StandardOperator
                THEN /\ OperandIsSource(cmp, NodeOf(nodes, SourceId).barOffset + 1)
                     /\ cmp.l.idx = TheNode.barOffset + 1
                ELSE OperandIsSource(cmp, cmp.l.idx)
       /\ (StandardOperator /\ TheNode.lookback = 0 /\ last.ran) =>
             LET t == Len(hist)
                 operand == IF SourceWired
                            THEN hist[t - NodeOf(nodes, SourceId).barOffset][<<"Open", 0>>]
                            ELSE TheNode.compareValue
             IN last.bought = Compare(hist[t - TheNode.barOffset][Close],
                                      TheNode.comparison, operand)

(* `Close > Open` with the source two bars back: the close 32 is above the open
   28 of two bars before and not above the open 32 of its own bar, and the rule
   fires *)
C23_Witness ==
    /\ mode = "cond" /\ SourceWired /\ TheNode.comparison = ">"
    /\ TheNode.barOffset = 0 /\ NodeOf(nodes, SourceId).barOffset = 2
    /\ TheNode.lookback = 0 /\ Len(hist) = 3
    /\ hist[3][Close] = 32 /\ hist[3][<<"Open", 0>>] = 32 /\ hist[1][<<"Open", 0>>] = 28
    /\ last.ran /\ last.bought

----------------------------------------------------------------------------
(* Claims about the indicators a compiled graph declares (SpecCompile) *)

(* C24: every exit rule of ATR basis has the ATR of its own period declared and
   reads it: with two exit nodes of ATR basis and different periods, each
   period is the period of the ATR series its rule's threshold is computed
   from. *)
C24_AtrPeriodPerExit ==
    mode = "compiled" =>
       \A i \in 1..Len(nodes) :
          (/\ nodes[i].type = "exit" /\ ExitType(nodes[i]) = "atr"
           /\ \E j \in 1..Len(strategyCode.exit.nextLines) :
                 strategyCode.exit.nextLines[j].node = nodes[i].id)
             => strategyCode.exit.atrPeriod
                   = (IF nodes[i].config.period # 0 THEN nodes[i].config.period ELSE 14)

(* the graph is Indicator nodes joined by one gate before a Buy: the j-th
   comparison of the Buy rule is the j-th Indicator node's *)
IndicatorsBeforeBuy ==
    /\ mode = "compiled" /\ strategyCode.kind = "strategy"
    /\ Len(strategyCode.buy) = 1
    /\ strategyCode.buy[1].condition.k = "and"
    /\ Len(strategyCode.buy[1].condition.args) = Len(NodesOfType(nodes, "indicator"))

(* the series the j-th Indicator node's compiled expression reads *)
SeriesRead(j) == strategyCode.buy[1].condition.args[j].l.name

(* a node's own parameters, the documented default where it stores none *)
OwnParameters(node) ==
    LET c == node.config
        or(value, default) == IF value # 0 THEN value ELSE default
    IN CASE node.label = "MACD" -> <<or(c.fast, 12), or(c.slow, 26), or(c.signal, 9)>>
         [] node.label = "Bollinger Bands" -> <<or(c.period, 20), or(c.std, 2), or(c.std, 2)>>
         [] node.label = "Stochastic" -> <<or(c.kPeriod, 14), or(c.dPeriod, 3), or(c.dPeriod, 3)>>
         [] node.label \in {"SMA", "EMA"} -> <<or(c.period, 20)>>
         [] OTHER -> <<or(c.period, 14)>>

(* the parameters the series of that name is computed with: those of the last
   init line that assigns it (<<>>: no line does) *)
DeclaredParameters(series) ==
    LET lines == { a \in 1..Len(strategyCode.inits) : strategyCode.inits[a].attr = series }
    IN IF lines = {} THEN <<>>
       ELSE strategyCode.inits[CHOOSE a \in lines : \A b \in lines : b <= a].params

(* C25: every Indicator node's compiled expression reads a series that is
   declared and computed with that node's own parameters, and two Indicator
   nodes of one kind with different parameters read two different series,
   MACD, Bollinger Bands and Stochastic included. *)
C25_SeriesOfOwnParameters ==
    IndicatorsBeforeBuy =>
       LET indicators == NodesOfType(nodes, "indicator")
       IN /\ \A j \in 1..Len(indicators) :
                DeclaredParameters(SeriesRead(j)) = OwnParameters(indicators[j])
          /\ \A i, j \in 1..Len(indicators) :
                (/\ indicators[i].label = indicators[j].label
                 /\ OwnParameters(indicators[i]) # OwnParameters(indicators[j]))
                   => SeriesRead(i) # SeriesRead(j)

----------------------------------------------------------------------------
(* Claims about the predicate of a compiled rule (SpecCompile) *)

(* the sources of the Flow edges that end at a node *)
FlowSources(id) ==
    { edges[k].source : k \in { i \in 1..Len(edges) :
                                  edges[i].target = id /\ edges[i].targetHandle # "compare-input" } }

(* the series a compiled predicate reads *)
RECURSIVE SeriesIn(_)
SeriesIn(c) ==
    IF c.k = "cmp"
    THEN { e.name : e \in { x \in {c.l, c.r} : x.k = "ser" } }
    ELSE UNION { SeriesIn(c.args[j]) : j \in 1..Len(c.args) }

(* the bars that give each series of a predicate a value below or above 30 *)
BarsOf(c) == [SeriesIn(c) -> {28, 32}]

(* the rules compiled for an Action node *)
RulesOf(node) ==
    LET rules == IF node.label = "Buy" THEN strategyCode.buy ELSE strategyCode.sell
    IN { rules[j].condition : j \in { i \in 1..Len(rules) : rules[i].node = node.id } }

(* C26: the predicate of a Buy or Sell rule is true on a bar iff the compiled
   predicate of every node wired to the Action node by a Flow edge is true on
   that bar; with no Flow parent it is always true; compare-input edges add no
   parent. *)
C26_ImplicitAnd ==
    (mode = "compiled" /\ strategyCode.kind = "strategy") =>
       \A i \in 1..Len(nodes) :
          (nodes[i].type = "action" /\ nodes[i].label \in {"Buy", "Sell"}) =>
             /\ RulesOf(nodes[i]) # {}
             /\ \A condition \in RulesOf(nodes[i]) : \A bar \in BarsOf(condition) :
                   Holds(condition, bar)
                      <=> \A p \in FlowSources(nodes[i].id) :
                             Holds(generateNodeCondition(nodes, edges, p, {}), bar)

(* an Action node with two Flow parents of which one holds on a bar and the
   other does not, and a compare-input edge from a node that is no Flow parent *)
C26_Witness ==
    /\ mode = "compiled" /\ strategyCode.kind = "strategy"
    /\ \E i \in 1..Len(nodes) :
          /\ nodes[i].type = "action" /\ nodes[i].label \in {"Buy", "Sell"}
          /\ Len(Parents(edges, nodes[i].id)) >= 2
          /\ \E k \in 1..Len(edges) :
                /\ edges[k].target = nodes[i].id
                /\ edges[k].targetHandle = "compare-input"
                /\ edges[k].source \notin FlowSources(nodes[i].id)
          /\ \E bar \in LogicBars :
                /\ Holds(generateNodeCondition(nodes, edges, Parents(edges, nodes[i].id)[1], {}), bar)
                /\ ~Holds(generateNodeCondition(nodes, edges, Parents(edges, nodes[i].id)[2], {}), bar)
                /\ \A condition \in RulesOf(nodes[i]) : ~Holds(condition, bar)

----------------------------------------------------------------------------
(* Claims about the compilation of shared nodes and of cycles (SpecCompile) *)

NodeIds == { nodes[i].id : i \in 1..Len(nodes) }

(* no Flow cycle, no self-loop *)
Acyclic == \A id \in NodeIds : ~OnCycle(edges, id)

(* a compiled predicate with an always-true part *)
RECURSIVE HasTrue(_)
HasTrue(c) ==
    \/ c.k = "True"
    \/ \E j \in 1..Len(c.args) : HasTrue(c.args[j])

(* every node the Action node is reached from is a Price or Indicator node of
   the graph or a gate of the graph that has an input *)
InputsComplete(id) ==
    \A a \in Ancestors(edges, id) :
       /\ HasNode(nodes, a)
       /\ NodeOf(nodes, a).type \in {"price", "indicator", "logic"}
       /\ NodeOf(nodes, a).type = "logic" => Len(Parents(edges, a)) >= 1

(* C27: in an acyclic graph a node that feeds several gates compiles to the
   same, full predicate wherever it is an input: the predicate of every gate
   is built from the predicates its inputs compile to on their own, and no
   rule of an Action node whose inputs are complete has an always-true part. *)
C27_SharedNodeCompiledInFull ==
    (mode = "compiled" /\ Acyclic) =>
       /\ \A i \in 1..Len(nodes) :
             LET ps == Parents(edges, nodes[i].id)
                 c == generateNodeCondition(nodes, edges, nodes[i].id, {})
             IN (nodes[i].type = "logic" /\ Len(ps) >= 1) =>
                   /\ c.k = CASE nodes[i].label = "NOT" -> "not"
                              [] nodes[i].label = "AND" -> "and"
                              [] OTHER -> "or"
                   /\ Len(c.args) = (IF nodes[i].label = "NOT" THEN 1 ELSE Len(ps))
                   /\ \A j \in 1..Len(c.args) :
                         c.args[j] = generateNodeCondition(nodes, edges, ps[j], {})
       /\ \A j \in 1..Len(strategyCode.buy) :
             (/\ Parents(edges, strategyCode.buy[j].node) # <<>>
              /\ InputsComplete(strategyCode.buy[j].node))
                => ~HasTrue(strategyCode.buy[j].condition)

(* a Price node that is the first input of the second gate and the input of
   the first gate, which is the second input of the second gate, before a Buy:
   both of its places in the rule hold its comparison *)
C27_Witness ==
    /\ mode = "compiled" /\ Acyclic
    /\ Len(strategyCode.buy) = 1
    /\ Parents(edges, BuyId) = << <<"logic", 2>> >>
    /\ Parents(edges, <<"logic", 2>>) = << NodeId, <<"logic", 1>> >>
    /\ Parents(edges, <<"logic", 1>>) = << NodeId >>
    /\ LET c == strategyCode.buy[1].condition
       IN /\ c.args[1].k = "cmp"
          /\ c.args[2].args[1] = c.args[1]

(* the deepest nesting of calls reached when the rule of an Action node is
   compiled: that of the deepest of its Flow parents (0: it has none) *)
DepthFrom(id) ==
    LET ps == Parents(edges, id)
        below == { RecursionDepth(nodes, edges, ps[j], {}, 1) : j \in 1..Len(ps) }
    IN IF below = {} THEN 0 ELSE CHOOSE d \in below : \A e \in below : e <= d

(* C28: compiling the condition of any Action node ends, whatever the graph:
   with Flow cycles, self-loops and edges from missing nodes the calls nest no
   deeper than the graph has nodes. *)
C28_DepthAtMostNodes ==
    mode = "compiled" =>
       \A i \in 1..Len(nodes) :
          nodes[i].type = "action" => DepthFrom(nodes[i].id) <= Len(nodes)

(* a gate that is its own input before a Buy: the second call, for the gate
   again, is the last, in a graph of two nodes *)
C28_Witness ==
    /\ mode = "compiled"
    /\ Len(nodes) = 2
    /\ OnCycle(edges, NotId)
    /\ DepthFrom(BuyId) = 2
    /\ strategyCode.kind = "strategy"

----------------------------------------------------------------------------
(* Claims about the connections of the editor (Spec) *)

(* every Action node has at most one inbound edge and no outbound edge *)
ActionDegrees(es) ==
    \A i \in 1..Len(nodes) :
       nodes[i].type = "action" =>
          /\ Cardinality({ k \in 1..Len(es) : es[k].target = nodes[i].id }) <= 1
          /\ \A k \in 1..Len(es) : es[k].source # nodes[i].id

(* C29: from a graph in which every Action node has at most one inbound edge
   and no outbound edge, a connection attempt leaves every Action node so, and
   either adds the one attempted edge, which does not leave an Action node and
   does not enter one that had an inbound edge, or leaves the edges as they
   were. *)
C29_ActionDegreesKept ==
    [][(mode = "edit" /\ ActionDegrees(edges)) =>
          /\ ActionDegrees(edges')
          /\ \/ edges' = edges
             \/ \E connection \in Connections :
                   /\ edges' = Append(edges, connection)
                   /\ NodeOf(nodes, connection.source).type # "action"
                   /\ NodeOf(nodes, connection.target).type = "action"
                         => \A k \in 1..Len(edges) : edges[k].target # connection.target]_vars

(* the Buy has its one input beside another edge, and further attempts into
   it and out of it are refused *)
C29_Witness ==
    /\ mode = "edit"
    /\ Len(edges) >= 2
    /\ Cardinality({ k \in 1..Len(edges) : edges[k].target = BuyId }) = 1
    /\ \E connection \in Connections :
          /\ connection.target = BuyId /\ connection.targetHandle = ""
          /\ \A k \in 1..Len(edges) : edges[k].source # connection.source
          /\ ~isValidConnection(nodes, edges, connection)
    /\ \E connection \in Connections :
          /\ connection.source = BuyId
          /\ connection.targetHandle \in TargetHandles(NodeOf(nodes, connection.target))
          /\ ~isValidConnection(nodes, edges, connection)

----------------------------------------------------------------------------
(* Claims about the copies of the generated code (SpecEdit) *)

(* C30: after Clear All has emptied the graph no generated code is left: the
   store's strategyCode, the builder's generatedCode that Run Backtest posts
   and the App's strategyCode handed to the backtest and live tabs are all
   the empty string. *)
C30_NoCodeAfterReset ==
    [][resetFlow => /\ strategyCode' = NoCode
                    /\ generatedCode' = NoCode
                    /\ appStrategyCode' = NoCode]_vars

====
